---- MODULE Spec2Model ----
(***************************************************************************)
(* Stackwise: the asynchronous error-analysis pipeline.                    *)
(*                                                                         *)
(* FastAPI stores an error event and, for status_code >= 500, enqueues a   *)
(* Celery task on the Redis queue "ai_analysis"; a Celery worker picks the *)
(* task up, re-checks the event, parses the stack trace, fetches source    *)
(* snippets, calls the LLM and stores one row in error_analysis.           *)
(*                                                                         *)
(* The Python backend (app/tasks.py, app/celery_app.py) is described by    *)
(* backend/CELERY_SETUP.md (src/unnamed/part_004) and by spec.md; the      *)
(* definitions below follow those two texts.                               *)
(***************************************************************************)
EXTENDS Naturals, Integers, Sequences, FiniteSets, TLC

(***************************************************************************)
(* Bounds of the model.                                                    *)
(***************************************************************************)
\* number of error events ingested
MaxEvents == 1
\* number of TaskRecords created (by the Trigger Policy or by re-enqueueing):
\* as many as events
MaxTasks == MaxEvents

(***************************************************************************)
(* Program constants.                                                      *)
(***************************************************************************)
\* "Max retries: 3" / "up to a maximum of 3 attempts total"
MaxAttempts == 3
\* the Trigger Policy threshold: status_code >= 500
Threshold == 500
\* worker processes of the pool ("--concurrency=2")
Concurrency == 2
\* frames for which a snippet is fetched ("the top N")
MaxFetchFrames == 2

\* a null status_code (the column is nullable)
NULL == 0 - 1

Workers == 1..Concurrency

(***************************************************************************)
(* Stack traces.  A trace is a sequence of lines and a line a sequence of  *)
(* tokens; the stack column is nullable: <<>> is "no stack", <<trace>> a   *)
(* stack.                                                                  *)
(***************************************************************************)
\* "at f (a.js:10)"
FrameLineA == <<"at", "f", "(", "a.js", ":", "10", ")">>
\* "at b.js:20", a frame without a symbol
FrameLineB == <<"at", "b.js", ":", "20">>
\* "at g (c.js:30)"
FrameLineC == <<"at", "g", "(", "c.js", ":", "30", ")">>
\* "at f (a.js:", a frame line cut off by truncation
TruncatedLine == <<"at", "f", "(", "a.js", ":">>
\* "Error: Connection timeout", text that is no frame
HeaderLine == <<"Error", ":", "Connection", "timeout">>

NoStack == <<>>

\* the empty string as a trace: no lines
EmptyTrace == <<>>

\* the decimal numerals that occur as line numbers
LineNumbers == [n \in {"10", "20", "30"} |->
                  IF n = "10" THEN 10 ELSE IF n = "20" THEN 20 ELSE 30]

\* a variant that takes any line starting with "at" for a frame, without
\* looking for the line number
parse_line_Sloppy(l) ==
    IF Len(l) >= 4 /\ l[1] = "at"
    THEN << [file |-> l[4], line |-> NULL, symbol |-> l[2]] >>
    ELSE << >>

\* Stack Trace Interpreter, one line: a frame of the line, or nothing.
parse_line(l) ==
    IF /\ Len(l) = 7
       /\ l[1] = "at" /\ l[3] = "(" /\ l[5] = ":" /\ l[7] = ")"
       /\ l[6] \in DOMAIN LineNumbers
    THEN << [file |-> l[4], line |-> LineNumbers[l[6]], symbol |-> l[2]] >>
    ELSE IF /\ Len(l) = 4
            /\ l[1] = "at" /\ l[3] = ":"
            /\ l[4] \in DOMAIN LineNumbers
         THEN << [file |-> l[2], line |-> LineNumbers[l[4]], symbol |-> ""] >>
         ELSE << >>

RECURSIVE parse_lines(_)
parse_lines(ls) ==
    IF ls = << >> THEN << >>
    ELSE parse_line(Head(ls)) \o parse_lines(Tail(ls))

\* Stack Trace Interpreter: the frames of a (nullable) stack, in the order
\* of the trace; an absent or malformed trace gives the empty sequence.
parse_stack_trace(stack) ==
    IF stack = NoStack THEN << >> ELSE parse_lines(stack[1])

(***************************************************************************)
(* The payloads a client posts to /api/v1/events.                          *)
(***************************************************************************)
Payloads ==
    { [status_code |-> NULL, stack |-> << EmptyTrace >>],
      [status_code |-> 404, stack |-> << <<HeaderLine, TruncatedLine>> >>],
      [status_code |-> 500, stack |-> << <<FrameLineA>> >>],
      [status_code |-> 500, stack |-> NoStack],
      [status_code |-> 503,
       stack |-> << <<HeaderLine, FrameLineA, TruncatedLine, FrameLineB, FrameLineC>> >>] }

VARIABLES
    error_events,    \* the error_events table: a sequence, the id is the index
    error_analysis,  \* the error_analysis table: per error_event_id, its rows
                     \* in insertion order
    tasks,           \* the TaskRecords of queue "ai_analysis", the id is the index
    workers,         \* the local state of each worker process
    repository,      \* whether the project has a repository coordinate
    errs,            \* SDK: the error objects, with the INGESTED marker
    passes,          \* SDK: per error, the times it was passed to a middleware
    next_calls,      \* SDK: per error, the calls of next(err)
    axios_posts,     \* SDK: the POSTs to /api/v1/events, in the order issued
    auth_log,        \* dashboard: the requests the route middleware answered
    detail_page,     \* dashboard: the state of the ErrorDetailPage component
    project_page,    \* dashboard: the state of the ProjectDetailPage component
    local_storage,   \* API client: localStorage[API_TOKEN_KEY] of the browser
    session,         \* API client: whether the user has a session
    fetch_log,       \* API client: the requests apiRequest has sent
    pending_sync,    \* API client: the syncUser calls that wait for the backend
    clock,           \* timed queue: the time, in minutes
    timed_task,      \* timed queue: a TaskRecord with the broker's timestamps
    started,         \* timed queue: per worker, the start of its running attempt
    api_call,        \* apiRequest: the call in progress, with its abort timer
    api_outcomes,    \* apiRequest: how the calls have settled, in order
    user_sync,       \* UserSync: the state of the component and of its effect
    session_user,    \* UserSync: the GitHub account of the NextAuth session
    last_request,    \* UserSync: the last authenticated request of the page
    mounts,          \* UserSync: the page loads so far
    projects_fetch,  \* ProjectsPage: its wait for the token and its requests
    detail_fetch     \* the detail pages: their wait for the token and request

\* the state of the pipeline (backend, broker, workers)
pipelineVars == <<error_events, error_analysis, tasks, workers, repository>>

\* the state of the Node SDK inside the client application
sdkVars == <<errs, passes, next_calls, axios_posts>>

\* the state of the dashboard's route middleware
authVars == <<auth_log>>

\* the state of the dashboard's pages
dashVars == <<detail_page, project_page>>

\* the state of the dashboard's API client
apiVars == <<local_storage, session, fetch_log, pending_sync>>

\* the state of the work queue with its timing: one task, its deliveries
timedVars == <<clock, timed_task, started>>

\* the state of one apiRequest call after the other
requestVars == <<api_call, api_outcomes>>

\* the state of the UserSync component, of the session and of the page's request
syncVars == <<user_sync, session_user, last_request, mounts>>

\* the state of the pages' effects: the wait for the token and the fetch
pageVars == <<projects_fetch, detail_fetch>>

\* the state of the dashboard in the browser
browserVars == <<requestVars, syncVars, pageVars>>

\* what the pipeline's steps leave alone
clientVars == <<sdkVars, authVars, dashVars, apiVars, timedVars, browserVars>>

vars == <<pipelineVars, sdkVars, authVars, dashVars, apiVars, timedVars, browserVars>>

FetchOutcomes == {"ok", "NotFound", "AccessDenied", "NetworkError"}

\* tried: the frames a fetch was tried for so far; snippets: the snippets
\* fetched so far
IdleWorker ==
    [pc |-> "idle", task |-> 0, frames |-> << >>, tried |-> 0, snippets |-> 0,
     has_source_code |-> FALSE]

(***************************************************************************)
(* The Node SDK (sdks/node/src/index.ts).  Strings are sequences of        *)
(* characters.                                                             *)
(***************************************************************************)
\* [0-9]
Digits == {"0", "1", "2", "3", "4", "5", "6", "7", "8", "9"}

\* [0-9a-f] under the i flag
HexDigits == Digits \cup {"a", "b", "c", "d", "e", "f", "A", "B", "C", "D", "E", "F"}

\* the replacement text '/:id'
IdPlaceholder == <<"/", ":", "i", "d">>

\* the positions of the hyphens of a UUID, counted from its first character
UuidHyphens == {9, 14, 19, 24}

UuidLen == 36

\* /\/[0-9a-f]{8}-[0-9a-f]{4}-[0-9a-f]{4}-[0-9a-f]{4}-[0-9a-f]{12}/ matches
\* at the head of s
MatchesUuid(s) ==
    /\ Len(s) >= UuidLen + 1
    /\ s[1] = "/"
    /\ \A i \in 1..UuidLen :
          IF i \in UuidHyphens THEN s[i + 1] = "-" ELSE s[i + 1] \in HexDigits

\* s.replace(/\/<uuid>/gi, '/:id')
RECURSIVE ReplaceUuids(_)
ReplaceUuids(s) ==
    IF s = << >> THEN << >>
    ELSE IF MatchesUuid(s)
         THEN IdPlaceholder \o ReplaceUuids(SubSeq(s, UuidLen + 2, Len(s)))
         ELSE << Head(s) >> \o ReplaceUuids(Tail(s))

\* the length of the longest run of digits at the head of s
RECURSIVE DigitRun(_)
DigitRun(s) ==
    IF s # << >> /\ Head(s) \in Digits THEN 1 + DigitRun(Tail(s)) ELSE 0

\* s.replace(/\/\d+/g, '/:id')
RECURSIVE ReplaceNumbers(_)
ReplaceNumbers(s) ==
    IF s = << >> THEN << >>
    ELSE IF Head(s) = "/" /\ DigitRun(Tail(s)) > 0
         THEN IdPlaceholder
                 \o ReplaceNumbers(SubSeq(s, DigitRun(Tail(s)) + 2, Len(s)))
         ELSE << Head(s) >> \o ReplaceNumbers(Tail(s))

sanitizePath(path) ==
    ReplaceNumbers(ReplaceUuids(path))

\* s.split('?')[0]
RECURSIVE BeforeQuery(_)
BeforeQuery(s) ==
    IF s = << >> \/ Head(s) = "?" THEN << >>
    ELSE << Head(s) >> \o BeforeQuery(Tail(s))

\* the originalUrl of the requests
Uuid == <<"5", "5", "0", "e", "8", "4", "0", "0", "-", "e", "2", "9", "b", "-", "4", "1", "d", "4", "-", "a", "7", "1", "6", "-", "4", "4", "6", "6", "5", "5", "4", "4", "0", "0", "0", "0">>

OriginalUrls ==
    { <<"/", "u", "s", "e", "r", "s", "/", "1", "2", "3">>,
      <<"/", "u", "s", "e", "r", "s", "/", "1", "2", "3", "/", "o", "r", "d", "e", "r", "s", "/", "4", "5", "6">>,
      <<"/", "u", "s", "e", "r", "s", "/">> \o Uuid,
      <<"/", "u", "s", "e", "r", "s", "/", "1", "2", "3", "?", "p", "a", "g", "e", "=", "1">>,
      <<"/", "h", "e", "a", "l", "t", "h">>,
      <<"/", "f", "i", "l", "e", "s", "/", "1", "2", "3", "a", "b", "c">>,
      <<"/", "v", "2", "/", "i", "t", "e", "m", "s">> }

\* res.statusCode of the requests: the default 200 or an error code
ResStatusCodes == {200, 404}

\* the status code sent when neither the error nor the response gives one
DefaultStatusCode == 500

\* the default of res.statusCode
OkStatusCode == 200

\* the error objects the application passes to next(err): without a status
\* code, with statusCode and status, with status only
ErrorObjects ==
    << [statusCode |-> NULL, status |-> NULL],
       [statusCode |-> 404, status |-> 503],
       [statusCode |-> NULL, status |-> 400] >>

Errors == DOMAIN ErrorObjects

\* the middleware instances of the application, one per options object
Instances == {"outer", "inner"}

\* the passes of errors through middleware instances
MaxPasses == 3

(***************************************************************************)
(* The dashboard's route middleware (auth).                                *)
(***************************************************************************)
LoginPath == <<"/", "l", "o", "g", "i", "n">>

AuthApiPrefix == <<"/", "a", "p", "i", "/", "a", "u", "t", "h">>

ProjectsPath == <<"/", "p", "r", "o", "j", "e", "c", "t", "s">>

\* the pathnames of the requests
Pathnames ==
    { LoginPath,
      AuthApiPrefix,
      AuthApiPrefix \o <<"/", "s", "e", "s", "s", "i", "o", "n">>,
      AuthApiPrefix \o <<"o", "r", "s">>,
      ProjectsPath,
      ProjectsPath \o <<"/", "1">>,
      LoginPath \o <<"/", "h", "e", "l", "p">>,
      <<"/">> }

\* pathname.startsWith(prefix)
StartsWith(pathname, prefix) ==
    /\ Len(pathname) >= Len(prefix)
    /\ SubSeq(pathname, 1, Len(prefix)) = prefix

\* the requests answered before the log is cut off
MaxRequests == 2

AuthInit == auth_log = << >>

(***************************************************************************)
(* The dashboard's pages.  A value that may be null is a sequence of at    *)
(* most one element.                                                       *)
(***************************************************************************)
\* GET /api/v1/events/{id}/with-analysis: ErrorEventWithAnalysis
ErrorEventsWithAnalysis ==
    [event : [status_code : {NULL, 404, 500}],
     analysis : {<< >>, << [has_source_code |-> FALSE] >>,
                 << [has_source_code |-> TRUE] >>}]

\* the rows of GET /api/v1/events: ErrorEvent
ErrorEventRows ==
    [status_code : {404, 500}, has_analysis : BOOLEAN]

\* the events a project page lists
MaxRows == 2

ErrorEventLists ==
    UNION {[1..n -> ErrorEventRows] : n \in 0..MaxRows}

\* the messages of a failed request: the Error's message, or the page's own
FetchErrors == {"Event not found", "Failed to load error details"}

ProjectFetchErrors == {"Project not found", "Failed to load project"}

\* useState: errorData null, error null, loading true
DetailPageInit ==
    [loading |-> TRUE, error |-> << >>, errorData |-> << >>]

\* useState: project null, errors [], error null, loading true
ProjectPageInit ==
    [loading |-> TRUE, error |-> << >>, project |-> << >>, errors |-> << >>]

DashInit ==
    /\ detail_page = DetailPageInit
    /\ project_page = ProjectPageInit

(***************************************************************************)
(* The dashboard's API client.  A value that may be null is a sequence of  *)
(* at most one element.                                                    *)
(***************************************************************************)
\* the api_token values the backend gives out
Tokens == {"tokenA", "tokenB"}

SyncUserEndpoint == "/api/v1/auth/sync-user"

ProjectsEndpoint == "/api/v1/projects"

\* the requests sent before the log is cut off
MaxFetches == 4

\* no token stored, no session, nothing sent
ApiInit ==
    /\ local_storage = << >>
    /\ session = FALSE
    /\ fetch_log = << >>
    /\ pending_sync = {}

(***************************************************************************)
(* The work queue with its timing.  Times are in minutes.                  *)
(***************************************************************************)
\* "Timeout: 4 minutes soft, 5 minutes hard"
HardDeadline == 5

\* "Backoff: Exponential (up to 10 minutes)"
BackoffMax == 10

\* the visibility timeout exceeds the worst-case duration of an attempt
VisibilityTimeout == HardDeadline + 1

\* the time up to which the queue is followed
MaxClock == 12

\* the attempt counts the backoff delay is computed for
MaxBackoffAttempts == 6

TimedInit ==
    /\ clock = 0
    /\ timed_task = [state |-> "pending", attempts |-> 0,
                     next_eligible_time |-> 0, delivered_at |-> 0,
                     redelivered |-> FALSE]
    /\ started = [w \in Workers |-> NULL]

(***************************************************************************)
(* apiRequest and its abort timer (src/frontend/lib/api.ts).               *)
(***************************************************************************)
\* the HTTP statuses the backend answers with
ResponseStatuses == {200, 401, 500}

\* the status the client reports for a request it has aborted
TimeoutStatus == 408

\* the apiRequest calls made before the log is cut off
MaxCalls == 2

\* no call in progress: no timer is armed, no response is held
NoCall == [pc |-> "idle", timer |-> FALSE, response |-> << >>]

RequestInit ==
    /\ api_call = NoCall
    /\ api_outcomes = << >>

(***************************************************************************)
(* The UserSync component, in its two versions:                            *)
(* src/frontend/components/UserSync.tsx and src/unnamed/part_000:37-141.   *)
(***************************************************************************)
\* the GitHub accounts that use the browser
Users == {"A", "B"}

\* the api_token the backend returns for the account
TokenOf(user) == IF user = "A" THEN "tokenA" ELSE "tokenB"

UserSyncVersions == {"UserSync.tsx", "part_000"}

\* the page loads of one behaviour
MaxMounts == 2

\* no page with <UserSync /> is loaded
Unmounted ==
    [version |-> "none", synced |-> FALSE, effect_due |-> FALSE, pc |-> "idle",
     listener |-> FALSE, user |-> << >>]

SyncInit ==
    /\ user_sync = Unmounted
    /\ session_user = << >>
    /\ last_request = << >>
    /\ mounts = 0

(***************************************************************************)
(* The effects of the pages: ProjectsPage (src/frontend/app/projects/      *)
(* page.tsx), ProjectDetailPage ([projectId]/page.tsx) and ErrorDetailPage *)
(* ([projectId]/errors/[errorId]/page.tsx and src/unnamed/part_003).  A    *)
(* text is the sequence of its characters.                                 *)
(***************************************************************************)
\* the key api.ts stores the token under
API_TOKEN_KEY == "debug_ai_api_token"

\* the pages with a wait for the token, and the key each one reads
DetailPages == {"ProjectDetailPage", "ErrorDetailPage", "part_003"}

TokenKeyOf(page) ==
    IF page = "part_003" THEN "stackwise_api_token" ELSE "debug_ai_api_token"

\* the times React runs the effect of a mounted component: twice in Strict
\* Mode
MaxEffectRuns == 2

\* the getProjects requests of one page load
MaxProjectFetches == 3

\* the statuses of a failed request
ErrorStatuses == {401, 403, 500}

\* response.statusText
StatusText(status) ==
    IF status = 401 THEN <<"U", "n", "a", "u", "t", "h", "o", "r", "i", "z", "e", "d">>
    ELSE IF status = 403 THEN <<"F", "o", "r", "b", "i", "d", "d", "e", "n">>
    ELSE <<"S", "e", "r", "v", "e", "r", " ", "E", "r", "r", "o", "r">>

\* the detail of the backend's error body; the empty text when the body has
\* none
DetailTexts ==
    { << >>,
      <<"N", "o", "t", " ", "a", "u", "t", "h", "e", "n", "t", "i", "c", "a", "t", "e", "d">>,
      <<"B", "a", "d", " ", "t", "o", "k", "e", "n">>,
      <<"U", "n", "a", "u", "t", "h", "o", "r", "i", "z", "e", "d">> }

\* the prefix of the message of ApiClientError
MessagePrefix == <<"A", "P", "I", " ", "r", "e", "q", "u", "e", "s", "t", " ", "f", "a", "i", "l", "e", "d", ":", " ">>

\* the texts fetchProjects looks for in the message: '401', '403',
\* 'Unauthorized', 'Forbidden'
AuthTexts ==
    { <<"4", "0", "1">>,
      <<"4", "0", "3">>,
      <<"U", "n", "a", "u", "t", "h", "o", "r", "i", "z", "e", "d">>,
      <<"F", "o", "r", "b", "i", "d", "d", "e", "n">> }

InvalidResponseMessage == <<"I", "n", "v", "a", "l", "i", "d", " ", "r", "e", "s", "p", "o", "n", "s", "e", " ", "f", "r", "o", "m", " ", "s", "e", "r", "v", "e", "r">>

\* ProjectsPage is not loaded
NoProjectsPage ==
    [mounted |-> FALSE, user_synced |-> FALSE, timeout |-> FALSE,
     once_listener |-> FALSE, interval |-> FALSE, started |-> 0,
     in_flight |-> {}, loading |-> TRUE, error |-> << >>, shown |-> << >>]

\* no detail page is loaded
NoDetailPage ==
    [page |-> "none", user_synced |-> FALSE, valid_id |-> TRUE, effects |-> 0,
     hasFetchedRef |-> FALSE, waiting |-> 0, resolved |-> << >>, started |-> 0,
     in_flight |-> 0, loading |-> TRUE, error |-> FALSE]

PageInit ==
    /\ projects_fetch = NoProjectsPage
    /\ detail_fetch = NoDetailPage

BrowserInit == RequestInit /\ SyncInit /\ PageInit

SdkInit ==
    /\ errs = [e \in Errors |->
                 [statusCode |-> ErrorObjects[e].statusCode,
                  status |-> ErrorObjects[e].status,
                  ingested |-> FALSE]]
    /\ passes = [e \in Errors |-> 0]
    /\ next_calls = [e \in Errors |-> 0]
    /\ axios_posts = << >>

Init ==
    /\ SdkInit
    /\ AuthInit
    /\ DashInit
    /\ ApiInit
    /\ TimedInit
    /\ BrowserInit
    /\ error_events = << >>
    /\ error_analysis = [e \in 1..MaxEvents |-> << >>]
    /\ tasks = << >>
    /\ workers = [w \in Workers |-> IdleWorker]
    /\ repository \in BOOLEAN

(***************************************************************************)
(* Ingestion path and Trigger Policy.                                      *)
(***************************************************************************)
\* a variant that also enqueues client errors
decide_ClientErrors(event) ==
    event.status_code # NULL /\ event.status_code >= 400

\* Trigger Policy: enqueue if and only if status_code is set and >= 500.
decide(event) ==
    event.status_code # NULL /\ event.status_code >= Threshold

\* How the enqueue of the event's task goes: not attempted ("none") unless
\* the policy says so, else "ok" or, with the broker unavailable, "failed".
enqueue_outcome(event, brokerOk) ==
    IF ~decide(event) THEN "none" ELSE IF brokerOk THEN "ok" ELSE "failed"

\* a variant that passes an enqueue failure on to the caller
ingest_response_Propagated(enqueue) ==
    IF enqueue = "failed" THEN "error" ELSE "accepted"

\* What the ingestion call answers, given how the enqueue went: an enqueue
\* failure is logged and swallowed.
ingest_response(enqueue) == "accepted"

NewTask(e) ==
    [error_event_id |-> e, state |-> "pending", attempts |-> 0]

\* POST /api/v1/events: store the event, enqueue when the policy says so,
\* answer at once.
Ingest(p, brokerOk) ==
    /\ Len(error_events) < MaxEvents
    /\ LET id == Len(error_events) + 1
           enqueue == enqueue_outcome(p, brokerOk)
       IN /\ enqueue = "none" => brokerOk
          /\ enqueue = "ok" => Len(tasks) < MaxTasks
          /\ error_events' = Append(error_events,
                 [status_code |-> p.status_code, stack |-> p.stack,
                  response |-> ingest_response(enqueue)])
          /\ tasks' = IF enqueue = "ok"
                      THEN Append(tasks, NewTask(id))
                      ELSE tasks
    /\ UNCHANGED <<error_analysis, workers, repository>>
    /\ UNCHANGED clientVars

\* A task put on the queue outside the Trigger Policy: a stale or duplicate
\* message, or a manual reprocessing of a stored event.
Reenqueue(e) ==
    /\ e \in DOMAIN error_events
    /\ Len(tasks) < MaxTasks
    /\ tasks' = Append(tasks, NewTask(e))
    /\ UNCHANGED <<error_events, error_analysis, workers, repository>>
    /\ UNCHANGED clientVars

(***************************************************************************)
(* Work queue and retry state machine.                                     *)
(*   pending -> in-flight -> {succeeded | retry-scheduled | dead}          *)
(*   retry-scheduled -> in-flight                                          *)
(***************************************************************************)
Holding(w) == workers[w].task

EventOf(w) == tasks[Holding(w)].error_event_id

StartWorker(t) ==
    [IdleWorker EXCEPT !.pc = "check", !.task = t]

\* a variant in which an acknowledgement completes a task in any state
Acknowledged_AnyState(task) ==
    [task EXCEPT !.state = "succeeded"]

\* The task's state after a worker has acknowledged it: an acknowledgement
\* completes an in-flight task and is ignored for any other.
Acknowledged(task) ==
    IF task.state = "in-flight" THEN [task EXCEPT !.state = "succeeded"] ELSE task

\* a variant that counts a failed attempt twice
Failed_CountsTwice(task) ==
    IF task.state = "in-flight"
    THEN [task EXCEPT !.attempts = @ + 2,
                      !.state = IF task.attempts + 2 >= MaxAttempts
                                THEN "dead" ELSE "retry-scheduled"]
    ELSE task

\* a variant in which a failure reported for a task that is no longer in
\* flight puts it back on the retry schedule
Failed_AnyState(task) ==
    [task EXCEPT !.attempts = IF @ < MaxAttempts THEN @ + 1 ELSE @,
                 !.state = IF task.attempts + 1 >= MaxAttempts
                           THEN "dead" ELSE "retry-scheduled"]

\* a variant that allows one attempt more than the budget
Failed_OffByOne(task) ==
    IF task.state = "in-flight"
    THEN [task EXCEPT !.attempts = @ + 1,
                      !.state = IF task.attempts + 1 > MaxAttempts
                                THEN "dead" ELSE "retry-scheduled"]
    ELSE task

\* The task's state after an attempt has failed: the attempt counter goes up
\* by one, the task is retried unless the budget of MaxAttempts is used up.
Failed(task) ==
    IF task.state = "in-flight"
    THEN [task EXCEPT !.attempts = @ + 1,
                      !.state = IF task.attempts + 1 >= MaxAttempts
                                THEN "dead" ELSE "retry-scheduled"]
    ELSE task

\* The worker acknowledges its task and returns to its pull loop.
Acknowledge(w) ==
    /\ tasks' = [tasks EXCEPT ![Holding(w)] = Acknowledged(@)]
    /\ workers' = [workers EXCEPT ![w] = IdleWorker]

\* The worker's attempt ends with an exception: retry or dead.
Retry(w) ==
    /\ tasks' = [tasks EXCEPT ![Holding(w)] = Failed(@)]
    /\ workers' = [workers EXCEPT ![w] = IdleWorker]

\* The broker hands a pending task, or a retry-scheduled one whose backoff
\* has elapsed, to an idle worker.
Dequeue(w, t) ==
    /\ workers[w].pc = "idle"
    /\ t \in DOMAIN tasks
    /\ tasks[t].state \in {"pending", "retry-scheduled"}
    /\ tasks' = [tasks EXCEPT ![t].state = "in-flight"]
    /\ workers' = [workers EXCEPT ![w] = StartWorker(t)]
    /\ UNCHANGED <<error_events, error_analysis, repository>>
    /\ UNCHANGED clientVars

\* a variant of a broker without visibility timeout: an unacknowledged task
\* is never delivered again
Redeliver_Never(w, t) ==
    /\ FALSE
    /\ UNCHANGED vars

\* At-least-once delivery: an unacknowledged task is delivered again (its
\* visibility timeout ran out, or the broker duplicated the message), be the
\* earlier delivery still running or not.
Redeliver(w, t) ==
    /\ workers[w].pc = "idle"
    /\ t \in DOMAIN tasks
    /\ tasks[t].state = "in-flight"
    /\ workers' = [workers EXCEPT ![w] = StartWorker(t)]
    /\ UNCHANGED <<error_events, error_analysis, tasks, repository>>
    /\ UNCHANGED clientVars

(***************************************************************************)
(* Analysis workflow, one action per step.                                 *)
(***************************************************************************)
\* a variant without the idempotency check
AnalysisExists_Never(e) ==
    FALSE

\* Step 1, "Skip if analysis already exists".
AnalysisExists(e) ==
    error_analysis[e] # << >>

\* a variant that lets a null status_code pass the threshold re-check
BelowThreshold_NullPasses(event) ==
    event.status_code # NULL /\ event.status_code < Threshold

\* Step 2, "Skip if status_code < 500" (a null status_code is below it).
BelowThreshold(event) ==
    event.status_code = NULL \/ event.status_code < Threshold

\* Steps 1 and 2: a no-op is acknowledged at once.
Check(w) ==
    /\ workers[w].pc = "check"
    /\ IF AnalysisExists(EventOf(w)) \/ BelowThreshold(error_events[EventOf(w)])
       THEN Acknowledge(w)
       ELSE /\ workers' = [workers EXCEPT ![w].pc = "parse"]
            /\ UNCHANGED tasks
    /\ UNCHANGED <<error_events, error_analysis, repository>>
    /\ UNCHANGED clientVars

\* The frames snippets are fetched for: none without a repository, else the
\* first MaxFetchFrames frames.
FramesToFetch(frames) ==
    IF ~repository THEN 0
    ELSE IF Len(frames) < MaxFetchFrames THEN Len(frames) ELSE MaxFetchFrames

\* Step 3: parse the stack trace.
Parse(w) ==
    /\ workers[w].pc = "parse"
    /\ LET event == error_events[EventOf(w)]
           frames == parse_stack_trace(event.stack)
       IN workers' = [workers EXCEPT
              ![w].frames = frames,
              ![w].pc = IF FramesToFetch(frames) > 0
                        THEN "fetch" ELSE "engine"]
    /\ UNCHANGED <<error_events, error_analysis, tasks, repository>>
    /\ UNCHANGED clientVars

\* a variant in which a permanent fetch failure fails the attempt
Fetch_PermanentFatal(w, outcome) ==
    /\ workers[w].pc = "fetch"
    /\ IF outcome \in {"NotFound", "AccessDenied"}
       THEN Retry(w)
       ELSE /\ workers' = [workers EXCEPT
                   ![w].tried = @ + 1,
                   ![w].snippets = IF outcome = "ok" THEN @ + 1 ELSE @,
                   ![w].pc = IF workers[w].tried + 1 >= FramesToFetch(workers[w].frames)
                             THEN "engine" ELSE "fetch"]
            /\ UNCHANGED tasks
    /\ UNCHANGED <<error_events, error_analysis, repository>>
    /\ UNCHANGED clientVars

\* a variant in which a network error of a fetch fails the attempt
Fetch_NetworkFatal(w, outcome) ==
    /\ workers[w].pc = "fetch"
    /\ IF outcome = "NetworkError"
       THEN Retry(w)
       ELSE /\ workers' = [workers EXCEPT
                   ![w].tried = @ + 1,
                   ![w].snippets = IF outcome = "ok" THEN @ + 1 ELSE @,
                   ![w].pc = IF workers[w].tried + 1 >= FramesToFetch(workers[w].frames)
                             THEN "engine" ELSE "fetch"]
            /\ UNCHANGED tasks
    /\ UNCHANGED <<error_events, error_analysis, repository>>
    /\ UNCHANGED clientVars

\* Step 4: fetch the snippet of the next frame; whatever the outcome the
\* workflow goes on (a failed fetch only leaves the frame without snippet).
Fetch(w, outcome) ==
    /\ workers[w].pc = "fetch"
    /\ workers' = [workers EXCEPT
           ![w].tried = @ + 1,
           ![w].snippets = IF outcome = "ok" THEN @ + 1 ELSE @,
           ![w].pc = IF workers[w].tried + 1 >= FramesToFetch(workers[w].frames)
                     THEN "engine" ELSE "fetch"]
    /\ UNCHANGED <<error_events, error_analysis, tasks, repository>>
    /\ UNCHANGED clientVars

\* a variant that takes a fetch tried for a fetch succeeded
HasSourceCode_AnyAttempt(worker) ==
    worker.tried > 0

\* has_source_code = (at least one snippet fetched)
HasSourceCode(worker) ==
    worker.snippets > 0

\* a variant that acknowledges without the persist step
Analyze_SkipsPersist(w, ok) ==
    /\ workers[w].pc = "engine"
    /\ IF ok
       THEN /\ workers' = [workers EXCEPT
                   ![w] = [IdleWorker EXCEPT !.pc = "ack", !.task = Holding(w)]]
            /\ UNCHANGED tasks
       ELSE Retry(w)
    /\ UNCHANGED <<error_events, error_analysis, repository>>
    /\ UNCHANGED clientVars

\* Step 5: invoke the Analysis Engine; what it gives, with has_source_code,
\* is what the persist step stores; an engine error fails the attempt.
Analyze(w, ok) ==
    /\ workers[w].pc = "engine"
    /\ IF ok
       THEN /\ workers' = [workers EXCEPT
                   ![w] = [IdleWorker EXCEPT
                             !.pc = "persist", !.task = Holding(w),
                             !.has_source_code = HasSourceCode(workers[w])]]
            /\ UNCHANGED tasks
       ELSE Retry(w)
    /\ UNCHANGED <<error_events, error_analysis, repository>>
    /\ UNCHANGED clientVars

\* a variant without the uniqueness constraint
Insert_NoConstraint(row) ==
    [error_analysis EXCEPT ![row.error_event_id] = Append(@, row)]

\* a variant that replaces the row of the event
Insert_Upsert(row) ==
    [error_analysis EXCEPT ![row.error_event_id] = << row >>]

\* The insert into error_analysis under the uniqueness constraint on
\* error_event_id: the row is added unless one exists for the event.
Insert(row) ==
    IF error_analysis[row.error_event_id] # << >>
    THEN error_analysis
    ELSE [error_analysis EXCEPT ![row.error_event_id] = Append(@, row)]

\* a variant in which the insert that loses the race fails the attempt
Persist_LoserRetries(w, ok) ==
    /\ workers[w].pc = "persist"
    /\ IF ok /\ error_analysis[EventOf(w)] = << >>
       THEN LET row == [error_event_id |-> EventOf(w),
                        has_source_code |-> workers[w].has_source_code]
            IN /\ error_analysis' = Insert(row)
               /\ workers' = [workers EXCEPT
                      ![w] = [IdleWorker EXCEPT !.pc = "ack", !.task = Holding(w)]]
               /\ UNCHANGED tasks
       ELSE /\ Retry(w)
            /\ UNCHANGED error_analysis
    /\ UNCHANGED <<error_events, repository>>
    /\ UNCHANGED clientVars

\* Step 6: persist the AnalysisRecord; a database error fails the attempt,
\* an insert that loses the race is discarded and counts as done.
Persist(w, ok) ==
    /\ workers[w].pc = "persist"
    /\ IF ok
       THEN LET row == [error_event_id |-> EventOf(w),
                        has_source_code |-> workers[w].has_source_code]
            IN /\ error_analysis' = Insert(row)
               /\ workers' = [workers EXCEPT
                      ![w] = [IdleWorker EXCEPT !.pc = "ack", !.task = Holding(w)]]
               /\ UNCHANGED tasks
       ELSE /\ Retry(w)
            /\ UNCHANGED error_analysis
    /\ UNCHANGED <<error_events, repository>>
    /\ UNCHANGED clientVars

\* Step 7: acknowledge the task as succeeded.
Ack(w) ==
    /\ workers[w].pc = "ack"
    /\ Acknowledge(w)
    /\ UNCHANGED <<error_events, error_analysis, repository>>
    /\ UNCHANGED clientVars

\* a variant in which the terminated attempt is acknowledged
Timeout_Acknowledges(w) ==
    /\ workers[w].pc \in {"fetch", "engine"}
    /\ Acknowledge(w)
    /\ UNCHANGED <<error_events, error_analysis, repository>>
    /\ UNCHANGED clientVars

\* The attempt runs into its deadline during an external call and is ended
\* as a failed attempt.
Timeout(w) ==
    /\ workers[w].pc \in {"fetch", "engine"}
    /\ Retry(w)
    /\ UNCHANGED <<error_events, error_analysis, repository>>
    /\ UNCHANGED clientVars

\* The worker process dies: its local state is lost, the task stays
\* unacknowledged.
Crash(w) ==
    /\ workers[w].pc # "idle"
    /\ workers' = [workers EXCEPT ![w] = IdleWorker]
    /\ UNCHANGED <<error_events, error_analysis, tasks, repository>>
    /\ UNCHANGED clientVars

Next ==
    \/ \E p \in Payloads, brokerOk \in BOOLEAN : Ingest(p, brokerOk)
    \/ \E e \in 1..MaxEvents : Reenqueue(e)
    \/ \E w \in Workers, t \in 1..MaxTasks : Dequeue(w, t)
    \/ \E w \in Workers, t \in 1..MaxTasks : Redeliver(w, t)
    \/ \E w \in Workers : Check(w)
    \/ \E w \in Workers : Parse(w)
    \/ \E w \in Workers, outcome \in FetchOutcomes : Fetch(w, outcome)
    \/ \E w \in Workers, ok \in BOOLEAN : Analyze(w, ok)
    \/ \E w \in Workers, ok \in BOOLEAN : Persist(w, ok)
    \/ \E w \in Workers : Ack(w)
    \/ \E w \in Workers : Timeout(w)
    \/ \E w \in Workers : Crash(w)

Spec == Init /\ [][Next]_vars

\* a step a worker takes on the task it holds, a crash aside
WorkerStep(w) ==
    \/ Check(w)
    \/ Parse(w)
    \/ \E outcome \in FetchOutcomes : Fetch(w, outcome)
    \/ \E ok \in BOOLEAN : Analyze(w, ok)
    \/ \E ok \in BOOLEAN : Persist(w, ok)
    \/ Ack(w)
    \/ Timeout(w)

\* the broker delivers task t: first delivery, retry or redelivery
BrokerStep(t) ==
    \/ \E w \in Workers : Dequeue(w, t)
    \/ \E w \in Workers : Redeliver(w, t)

\* Fair scheduling of workers and broker: a worker that holds a task goes on
\* with it, the broker goes on delivering a task that waits or is
\* unacknowledged while a worker is free, and workers crash finitely often.
Fairness ==
    /\ \A w \in Workers : WF_vars(WorkerStep(w))
    /\ \A t \in 1..MaxTasks : WF_vars(BrokerStep(t))
    /\ <>[][\A w \in Workers : ~Crash(w)]_vars

FairSpec == Init /\ [][Next]_vars /\ Fairness

(***************************************************************************)
(* The SDK's error-handling middleware.                                    *)
(***************************************************************************)
\* a value of JavaScript that counts as true in a condition
Truthy(x) == x # NULL /\ x # 0

\* a variant that leaves the marker off
MarkIngested_Forgotten(err) ==
    err

\* (err as any)[INGESTED] = true
MarkIngested(err) ==
    [err EXCEPT !.ingested = TRUE]

\* a variant that does not look at err.status
StatusCodeOf_NoStatus(err, resStatusCode) ==
    IF ~Truthy(err.statusCode)
    THEN IF Truthy(resStatusCode) /\ resStatusCode # OkStatusCode
         THEN resStatusCode ELSE DefaultStatusCode
    ELSE err.statusCode

\* statusCode: err.statusCode || err.status, else res.statusCode unless it
\* is the default 200, else 500
StatusCodeOf(err, resStatusCode) ==
    LET statusCode == IF Truthy(err.statusCode) THEN err.statusCode
                      ELSE err.status
    IN IF ~Truthy(statusCode)
       THEN IF Truthy(resStatusCode) /\ resStatusCode # OkStatusCode
            THEN resStatusCode ELSE DefaultStatusCode
       ELSE statusCode

\* pathToSanitize and sanitizedPath (originalUrl is set on every request),
\* computed once per originalUrl
SanitizedPaths ==
    [originalUrl \in OriginalUrls |-> sanitizePath(BeforeQuery(originalUrl))]

SanitizedPath(originalUrl) ==
    SanitizedPaths[originalUrl]

\* a variant without the try/catch around the await
SendErrorEventSettles_Uncaught(axios) ==
    IF axios = "rejected" THEN "rejected" ELSE "resolved"

\* What the promise of sendErrorEvent does when axios.post settles: the
\* catch block swallows a rejection.
SendErrorEventSettles(axios) ==
    "resolved"

\* sendErrorEvent up to its await: the POST is issued and pending.
sendErrorEvent(e, path, status_code) ==
    [err |-> e, path |-> path, status_code |-> status_code,
     axios |-> "pending", promise |-> "pending"]

TotalPasses == passes[1] + passes[2] + passes[3]

\* a variant that returns without next(err) for an error already ingested
errorIngestionMiddleware_SkipDropsNext(instance, e, originalUrl, resStatusCode) ==
    /\ TotalPasses < MaxPasses
    /\ passes' = [passes EXCEPT ![e] = @ + 1]
    /\ IF errs[e].ingested
       THEN UNCHANGED <<errs, axios_posts, next_calls>>
       ELSE /\ errs' = [errs EXCEPT ![e] = MarkIngested(@)]
            /\ axios_posts' = Append(axios_posts,
                   sendErrorEvent(e, SanitizedPath(originalUrl),
                                  StatusCodeOf(errs[e], resStatusCode)))
            /\ next_calls' = [next_calls EXCEPT ![e] = @ + 1]
    /\ UNCHANGED <<pipelineVars, browserVars, authVars, dashVars, apiVars, timedVars>>

\* The handler the middleware returns, called with (err, req, res, next); it
\* runs to its end without suspending.
errorIngestionMiddleware(instance, e, originalUrl, resStatusCode) ==
    /\ TotalPasses < MaxPasses
    /\ passes' = [passes EXCEPT ![e] = @ + 1]
    /\ IF errs[e].ingested
       THEN UNCHANGED <<errs, axios_posts>>
       ELSE /\ errs' = [errs EXCEPT ![e] = MarkIngested(@)]
            /\ axios_posts' = Append(axios_posts,
                   sendErrorEvent(e, SanitizedPath(originalUrl),
                                  StatusCodeOf(errs[e], resStatusCode)))
    /\ next_calls' = [next_calls EXCEPT ![e] = @ + 1]
    /\ UNCHANGED <<pipelineVars, browserVars, authVars, dashVars, apiVars, timedVars>>

\* axios.post settles: fulfilled, or rejected (network error, timeout, error
\* response); sendErrorEvent's promise settles with it.
AxiosSettles(p, axios) ==
    /\ p \in DOMAIN axios_posts
    /\ axios_posts[p].axios = "pending"
    /\ axios_posts' = [axios_posts EXCEPT
           ![p].axios = axios,
           ![p].promise = SendErrorEventSettles(axios)]
    /\ UNCHANGED <<errs, passes, next_calls>>
    /\ UNCHANGED <<pipelineVars, browserVars, authVars, dashVars, apiVars, timedVars>>

\* the state at the start, for the components outside the pipeline: the
\* pipeline is at rest, with no repository configured
ClientInit == Init /\ repository = FALSE

SdkNext ==
    \/ \E instance \in Instances, e \in Errors, originalUrl \in OriginalUrls,
          resStatusCode \in ResStatusCodes :
          errorIngestionMiddleware(instance, e, originalUrl, resStatusCode)
    \/ \E p \in 1..MaxPasses, axios \in {"fulfilled", "rejected"} :
          AxiosSettles(p, axios)

SdkSpec == ClientInit /\ [][SdkNext]_vars

(***************************************************************************)
(* The dashboard's route middleware.                                       *)
(***************************************************************************)
\* NextResponse.next()
NextResponse == [kind |-> "next", location |-> << >>, callbackUrl |-> << >>]

\* NextResponse.redirect(url), url with or without a callbackUrl parameter
Redirect(location, callbackUrl) ==
    [kind |-> "redirect", location |-> location, callbackUrl |-> callbackUrl]

\* the response of the middleware to a request
Response(pathname, isLoggedIn) ==
    IF pathname = LoginPath \/ StartsWith(pathname, AuthApiPrefix)
    THEN IF isLoggedIn /\ pathname = LoginPath
         THEN Redirect(ProjectsPath, << >>)
         ELSE NextResponse
    ELSE IF ~isLoggedIn
         THEN Redirect(LoginPath, pathname)
         ELSE NextResponse

\* the middleware answers a request
middleware(pathname, isLoggedIn) ==
    /\ Len(auth_log) < MaxRequests
    /\ auth_log' = Append(auth_log,
                     [pathname |-> pathname, isLoggedIn |-> isLoggedIn,
                      response |-> Response(pathname, isLoggedIn)])
    /\ UNCHANGED <<pipelineVars, browserVars, sdkVars, dashVars, apiVars, timedVars>>

AuthNext ==
    \E pathname \in Pathnames, isLoggedIn \in BOOLEAN :
        middleware(pathname, isLoggedIn)

AuthSpec == ClientInit /\ [][AuthNext]_vars

(***************************************************************************)
(* The dashboard's pages: each action is an outcome of the page's effect,  *)
(* with the state the component has when the effect has finished.          *)
(***************************************************************************)
\* ErrorDetailPage: errorId is not a number
DetailInvalidId ==
    /\ detail_page.loading
    /\ detail_page' = [detail_page EXCEPT !.error = << "Invalid error ID" >>,
                                          !.loading = FALSE]
    /\ UNCHANGED <<pipelineVars, browserVars, sdkVars, authVars, apiVars, timedVars, project_page>>

\* ErrorDetailPage: getErrorEventWithAnalysis has answered
DetailFetched(data) ==
    /\ detail_page.loading
    /\ detail_page' = [detail_page EXCEPT !.errorData = << data >>,
                                          !.loading = FALSE]
    /\ UNCHANGED <<pipelineVars, browserVars, sdkVars, authVars, apiVars, timedVars, project_page>>

\* ErrorDetailPage: getErrorEventWithAnalysis has thrown
DetailFetchFailed(message) ==
    /\ detail_page.loading
    /\ detail_page' = [detail_page EXCEPT !.error = << message >>,
                                          !.loading = FALSE]
    /\ UNCHANGED <<pipelineVars, browserVars, sdkVars, authVars, apiVars, timedVars, project_page>>

\* the user refreshes the error page: the component is mounted anew
DetailRefresh ==
    /\ ~detail_page.loading
    /\ detail_page' = DetailPageInit
    /\ UNCHANGED <<pipelineVars, browserVars, sdkVars, authVars, apiVars, timedVars, project_page>>

\* a variant that takes a missing analysis for a failure
ErrorDetailView_AnalysisRequired(page) ==
    IF page.loading THEN "skeleton"
    ELSE IF page.error # << >> \/ page.errorData = << >>
            \/ page.errorData[1].analysis = << >>
         THEN "error"
         ELSE "details"

\* what ErrorDetailPage renders
ErrorDetailView(page) ==
    IF page.loading THEN "skeleton"
    ELSE IF page.error # << >> \/ page.errorData = << >> THEN "error"
    ELSE "details"

\* the badge of the "AI Analysis" card
AnalysisBadge(errorData) ==
    IF errorData.analysis # << >> THEN "Analyzed" ELSE "Pending"

\* ProjectDetailPage: projectId is not a number
ProjectInvalidId ==
    /\ project_page.loading
    /\ project_page' = [project_page EXCEPT !.error = << "Invalid project ID" >>,
                                            !.loading = FALSE]
    /\ UNCHANGED <<pipelineVars, browserVars, sdkVars, authVars, apiVars, timedVars, detail_page>>

\* ProjectDetailPage: getProject has thrown
ProjectFetchFailed(message) ==
    /\ project_page.loading
    /\ project_page' = [project_page EXCEPT !.error = << message >>,
                                            !.loading = FALSE]
    /\ UNCHANGED <<pipelineVars, browserVars, sdkVars, authVars, apiVars, timedVars, detail_page>>

\* ProjectDetailPage: getProject has answered, and getErrorEvents has
\* answered with events or has thrown
ProjectFetched(events, eventsOk) ==
    /\ project_page.loading
    /\ project_page' = [project_page EXCEPT
                           !.project = << "project" >>,
                           !.errors = IF eventsOk THEN events ELSE << >>,
                           !.loading = FALSE]
    /\ UNCHANGED <<pipelineVars, browserVars, sdkVars, authVars, apiVars, timedVars, detail_page>>

\* the user refreshes the project page
ProjectRefresh ==
    /\ ~project_page.loading
    /\ project_page' = ProjectPageInit
    /\ UNCHANGED <<pipelineVars, browserVars, sdkVars, authVars, apiVars, timedVars, detail_page>>

\* what ProjectDetailPage renders
ProjectView(page) ==
    IF page.loading THEN "loading"
    ELSE IF page.error # << >> \/ page.project = << >> THEN "error"
    ELSE "project"

\* the badge of a row of the project page's error table
RowBadge(err) ==
    IF err.has_analysis THEN "Analyzed" ELSE "Pending"

DashNext ==
    \/ DetailInvalidId
    \/ \E data \in ErrorEventsWithAnalysis : DetailFetched(data)
    \/ \E message \in FetchErrors : DetailFetchFailed(message)
    \/ DetailRefresh
    \/ ProjectInvalidId
    \/ \E message \in ProjectFetchErrors : ProjectFetchFailed(message)
    \/ \E events \in ErrorEventLists, eventsOk \in BOOLEAN :
          ProjectFetched(events, eventsOk)
    \/ ProjectRefresh

DashSpec == ClientInit /\ [][DashNext]_vars

(***************************************************************************)
(* The dashboard's API client.  window tells whether the code runs in the  *)
(* browser (TRUE) or on the server (FALSE).                                *)
(***************************************************************************)
\* localStorage.getItem(API_TOKEN_KEY), null on the server
getApiToken(window) ==
    IF ~window THEN << >> ELSE local_storage

\* localStorage after setApiToken(token): nothing is stored on the server
setApiToken(token, window) ==
    IF window THEN << token >> ELSE local_storage

\* localStorage after clearApiToken()
clearApiToken(window) ==
    IF window THEN << >> ELSE local_storage

\* a variant that sends the stored token with every request
apiRequest_AlwaysAuth(endpoint, requireAuth, window) ==
    [endpoint |-> endpoint, requireAuth |-> requireAuth,
     authorization |-> getApiToken(window)]

\* the request apiRequest sends: the Authorization header is 'Bearer' and
\* the token, or absent
apiRequest(endpoint, requireAuth, window) ==
    LET token == IF requireAuth THEN getApiToken(window) ELSE << >>
    IN [endpoint |-> endpoint, requireAuth |-> requireAuth,
        authorization |-> IF token # << >> THEN token ELSE << >>]

\* an authenticated call of the API (getProjects, getErrorEvents, ...), from
\* a client component
ApiCall(endpoint) ==
    /\ Len(fetch_log) < MaxFetches
    /\ fetch_log' = Append(fetch_log, apiRequest(endpoint, TRUE, TRUE))
    /\ UNCHANGED <<pipelineVars, browserVars, sdkVars, authVars, dashVars, timedVars>>
    /\ UNCHANGED <<local_storage, session, pending_sync>>

\* api.syncUser sends its request, from UserSync in the browser or from
\* syncUserWithBackend on the server
syncUser(window) ==
    /\ session
    /\ Len(fetch_log) < MaxFetches
    /\ window \notin pending_sync
    /\ fetch_log' = Append(fetch_log, apiRequest(SyncUserEndpoint, FALSE, window))
    /\ pending_sync' = pending_sync \cup {window}
    /\ UNCHANGED <<pipelineVars, browserVars, sdkVars, authVars, dashVars, timedVars>>
    /\ UNCHANGED <<local_storage, session>>

\* the request of api.syncUser has returned the user, or has thrown
syncUserSettles(window, ok, api_token) ==
    /\ window \in pending_sync
    /\ pending_sync' = pending_sync \ {window}
    /\ local_storage' = IF ok THEN setApiToken(api_token, window)
                        ELSE local_storage
    /\ UNCHANGED <<pipelineVars, browserVars, sdkVars, authVars, dashVars, timedVars>>
    /\ UNCHANGED <<session, fetch_log>>

\* the user signs in with GitHub
signIn ==
    /\ ~session
    /\ session' = TRUE
    /\ UNCHANGED <<pipelineVars, browserVars, sdkVars, authVars, dashVars, timedVars>>
    /\ UNCHANGED <<local_storage, fetch_log, pending_sync>>

\* the server action of the "Sign out" button: signOut({redirectTo: "/login"})
signOutAction ==
    /\ session
    /\ session' = FALSE
    /\ UNCHANGED <<pipelineVars, browserVars, sdkVars, authVars, dashVars, timedVars>>
    /\ UNCHANGED <<local_storage, fetch_log, pending_sync>>

ApiNext ==
    \/ ApiCall(ProjectsEndpoint)
    \/ \E window \in BOOLEAN : syncUser(window)
    \/ \E window \in BOOLEAN, ok \in BOOLEAN, api_token \in Tokens :
          syncUserSettles(window, ok, api_token)
    \/ signIn
    \/ signOutAction

ApiSpec == ClientInit /\ [][ApiNext]_vars

(***************************************************************************)
(* The work queue with its timing: the deliveries of one task, the         *)
(* backoff of its retries, the deadline of an attempt and the visibility   *)
(* timeout of a delivery.                                                  *)
(***************************************************************************)
Min(a, b) == IF a <= b THEN a ELSE b

\* the delay before the retry that follows the failed attempt number
\* `attempts`: exponential, capped at BackoffMax
BackoffDelay(attempts) ==
    Min(2 ^ attempts, BackoffMax)

\* a variant that hands out a retry at once
Eligible_AtOnce(task, now) ==
    task.state \in {"pending", "retry-scheduled"}

\* the queue may hand the task to a worker: it is pending, or its retry is
\* scheduled and next-eligible-time has elapsed
Eligible(task, now) ==
    \/ task.state = "pending"
    \/ task.state = "retry-scheduled" /\ now >= task.next_eligible_time

\* worker w runs an attempt
Running(w) == started[w] # NULL

\* the task after a failed attempt at time now
FailedAt(task, now) ==
    IF task.state = "in-flight"
    THEN [Failed(task) EXCEPT
             !.next_eligible_time = now + BackoffDelay(task.attempts + 1)]
    ELSE task

\* a minute passes; the runtime lets no attempt run beyond its hard deadline
Tick ==
    /\ clock < MaxClock
    /\ \A w \in Workers : Running(w) => clock - started[w] < HardDeadline
    /\ clock' = clock + 1
    /\ UNCHANGED <<timed_task, started>>
    /\ UNCHANGED <<pipelineVars, browserVars, sdkVars, authVars, dashVars, apiVars>>

\* pending -> in-flight, retry-scheduled -> in-flight
TimedDequeue(w) ==
    /\ ~Running(w)
    /\ Eligible(timed_task, clock)
    /\ timed_task' = [timed_task EXCEPT !.state = "in-flight",
                                        !.delivered_at = clock,
                                        !.redelivered = FALSE]
    /\ started' = [started EXCEPT ![w] = clock]
    /\ UNCHANGED clock
    /\ UNCHANGED <<pipelineVars, browserVars, sdkVars, authVars, dashVars, apiVars>>

\* a variant of a broker that does not wait for the visibility timeout
VisibilityRedeliver_Early(w) ==
    /\ ~Running(w)
    /\ timed_task.state = "in-flight"
    /\ timed_task' = [timed_task EXCEPT !.delivered_at = clock,
                                        !.redelivered = TRUE]
    /\ started' = [started EXCEPT ![w] = clock]
    /\ UNCHANGED clock
    /\ UNCHANGED <<pipelineVars, browserVars, sdkVars, authVars, dashVars, apiVars>>

\* the task was delivered VisibilityTimeout ago and is not acknowledged: it
\* is delivered again
VisibilityRedeliver(w) ==
    /\ ~Running(w)
    /\ timed_task.state = "in-flight"
    /\ clock - timed_task.delivered_at >= VisibilityTimeout
    /\ timed_task' = [timed_task EXCEPT !.delivered_at = clock,
                                        !.redelivered = TRUE]
    /\ started' = [started EXCEPT ![w] = clock]
    /\ UNCHANGED clock
    /\ UNCHANGED <<pipelineVars, browserVars, sdkVars, authVars, dashVars, apiVars>>

\* the attempt of worker w ends: acknowledged, or failed with an exception
AttemptEnds(w, ok) ==
    /\ Running(w)
    /\ timed_task' = IF ok THEN Acknowledged(timed_task)
                     ELSE FailedAt(timed_task, clock)
    /\ started' = [started EXCEPT ![w] = NULL]
    /\ UNCHANGED clock
    /\ UNCHANGED <<pipelineVars, browserVars, sdkVars, authVars, dashVars, apiVars>>

\* the attempt of worker w has run for HardDeadline: the runtime terminates
\* it, a failed attempt
HardDeadlineHits(w) ==
    /\ Running(w)
    /\ clock - started[w] = HardDeadline
    /\ timed_task' = FailedAt(timed_task, clock)
    /\ started' = [started EXCEPT ![w] = NULL]
    /\ UNCHANGED clock
    /\ UNCHANGED <<pipelineVars, browserVars, sdkVars, authVars, dashVars, apiVars>>

\* the worker process dies during its attempt
TimedCrash(w) ==
    /\ Running(w)
    /\ started' = [started EXCEPT ![w] = NULL]
    /\ UNCHANGED <<clock, timed_task>>
    /\ UNCHANGED <<pipelineVars, browserVars, sdkVars, authVars, dashVars, apiVars>>

TimedNext ==
    \/ Tick
    \/ \E w \in Workers : TimedDequeue(w)
    \/ \E w \in Workers : VisibilityRedeliver(w)
    \/ \E w \in Workers, ok \in BOOLEAN : AttemptEnds(w, ok)
    \/ \E w \in Workers : HardDeadlineHits(w)
    \/ \E w \in Workers : TimedCrash(w)

TimedSpec == ClientInit /\ [][TimedNext]_vars

(***************************************************************************)
(* apiRequest (src/frontend/lib/api.ts:53-137): the call arms a 10-second  *)
(* timer that aborts the fetch, awaits the fetch, and then reads the body. *)
(* A value that may be absent is a sequence of at most one element.        *)
(***************************************************************************)
\* response.ok
IsOk(status) == status \in 200..299

\* the promise of apiRequest fulfils with value
Returns(value, response) ==
    [kind |-> "return", statusCode |-> << >>, value |-> value,
     response |-> response, rejection |-> << >>]

\* the promise of apiRequest rejects with new ApiClientError(.., statusCode, ..)
ThrowsApiClientError(statusCode, response, rejection) ==
    [kind |-> "ApiClientError", statusCode |-> << statusCode >>, value |-> "none",
     response |-> response, rejection |-> rejection]

\* the promise of apiRequest rejects with the error it caught
Rethrows(response, rejection) ==
    [kind |-> "Error", statusCode |-> << >>, value |-> "none",
     response |-> response, rejection |-> rejection]

\* the catch block: an abort is reported as a timeout, anything else is
\* thrown again
Catch(error) ==
    IF error.name = "AbortError" \/ error.message_aborted
      THEN ThrowsApiClientError(TimeoutStatus, << >>, << error >>)
      ELSE Rethrows(<< >>, << error >>)

\* the call has settled with outcome, its timer is in the state timer
Settles(outcome, timer) ==
    /\ api_outcomes' = Append(api_outcomes, outcome)
    /\ api_call' = [pc |-> "idle", timer |-> timer, response |-> << >>]

\* apiRequest is called: the timer is armed and the fetch is sent
apiRequestStart ==
    /\ api_call.pc = "idle"
    /\ Len(api_outcomes) < MaxCalls
    /\ api_call' = [pc |-> "fetch", timer |-> TRUE, response |-> << >>]
    /\ UNCHANGED api_outcomes
    /\ UNCHANGED <<pipelineVars, sdkVars, authVars, dashVars, apiVars, timedVars, syncVars, pageVars>>

\* a variant that leaves the timer armed when the response has arrived
FetchResolves_KeepsTimer(status, json) ==
    /\ api_call.pc = "fetch"
    /\ IF IsOk(status) /\ ~json
         THEN Settles(Returns("empty", << [status |-> status, json |-> json] >>),
                      api_call.timer)
         ELSE /\ api_call' = [pc |-> "json", timer |-> api_call.timer,
                              response |-> << [status |-> status, json |-> json] >>]
              /\ UNCHANGED api_outcomes
    /\ UNCHANGED <<pipelineVars, sdkVars, authVars, dashVars, apiVars, timedVars, syncVars, pageVars>>

\* fetch fulfils with a response: the timer is cleared; a response that is
\* OK and not JSON is answered with {}, any other has its body read
FetchResolves(status, json) ==
    /\ api_call.pc = "fetch"
    /\ IF IsOk(status) /\ ~json
         THEN Settles(Returns("empty", << [status |-> status, json |-> json] >>),
                      FALSE)
         ELSE /\ api_call' = [pc |-> "json", timer |-> FALSE,
                              response |-> << [status |-> status, json |-> json] >>]
              /\ UNCHANGED api_outcomes
    /\ UNCHANGED <<pipelineVars, sdkVars, authVars, dashVars, apiVars, timedVars, syncVars, pageVars>>

\* response.json() settles: a response that is not OK throws ApiClientError
\* with its status, whether or not its body could be parsed; an OK response
\* returns the parsed body, or rejects with the parser's error
JsonSettles(parsed) ==
    /\ api_call.pc = "json"
    /\ LET response == api_call.response[1]
       IN IF ~IsOk(response.status)
            THEN Settles(ThrowsApiClientError(response.status, api_call.response,
                                               << >>),
                         api_call.timer)
            ELSE IF parsed
              THEN Settles(Returns("body", api_call.response), api_call.timer)
              ELSE Settles(Rethrows(api_call.response,
                                    << [name |-> "SyntaxError",
                                        message_aborted |-> FALSE] >>),
                           api_call.timer)
    /\ UNCHANGED <<pipelineVars, sdkVars, authVars, dashVars, apiVars, timedVars, syncVars, pageVars>>

\* fetch rejects because the network failed: the catch block clears the timer
FetchRejects(message_aborted) ==
    /\ api_call.pc = "fetch"
    /\ Settles(Catch([name |-> "TypeError", message_aborted |-> message_aborted]),
               FALSE)
    /\ UNCHANGED <<pipelineVars, sdkVars, authVars, dashVars, apiVars, timedVars, syncVars, pageVars>>

\* the timer fires while the fetch is pending: controller.abort() makes the
\* fetch reject with an AbortError, which the catch block handles
AbortTimerFires ==
    /\ api_call.pc = "fetch"
    /\ api_call.timer
    /\ Settles(Catch([name |-> "AbortError", message_aborted |-> TRUE]), FALSE)
    /\ UNCHANGED <<pipelineVars, sdkVars, authVars, dashVars, apiVars, timedVars, syncVars, pageVars>>

RequestNext ==
    \/ apiRequestStart
    \/ \E status \in ResponseStatuses, json \in BOOLEAN : FetchResolves(status, json)
    \/ \E parsed \in BOOLEAN : JsonSettles(parsed)
    \/ \E message_aborted \in BOOLEAN : FetchRejects(message_aborted)
    \/ AbortTimerFires

\* the browser runs a timer that is due
RequestSpec == ClientInit /\ [][RequestNext]_vars /\ WF_vars(AbortTimerFires)

(***************************************************************************)
(* The UserSync component.  Its effect has the dependency [synced]: it is  *)
(* due after the mount and after every change of synced, and React runs it *)
(* before the component handles another response.                          *)
(***************************************************************************)
\* the user of the NextAuth session, if there is one
SessionUser == IF session THEN session_user ELSE << >>

\* setSynced(value): a changed state makes the effect run again
setSynced(component, value) ==
    [component EXCEPT !.synced = value,
                      !.effect_due = @ \/ (value # component.synced)]

\* what the steps of UserSync and of the page leave alone
SyncFrame ==
    /\ UNCHANGED <<pipelineVars, sdkVars, authVars, dashVars, timedVars, requestVars>>
    /\ UNCHANGED <<fetch_log, pending_sync, pageVars>>

\* the user signs in with a GitHub account
signInAs(user) ==
    /\ ~session
    /\ session' = TRUE
    /\ session_user' = << user >>
    /\ UNCHANGED <<local_storage, user_sync, last_request, mounts>>
    /\ SyncFrame

\* a page of the dashboard is loaded: <UserSync /> is mounted with
\* synced = false
Mount(version) ==
    /\ session
    /\ mounts < MaxMounts
    /\ user_sync.version \in {"none", version}
    /\ user_sync' = [Unmounted EXCEPT !.version = version, !.effect_due = TRUE]
    /\ mounts' = mounts + 1
    /\ UNCHANGED <<local_storage, session, session_user, last_request>>
    /\ SyncFrame

\* UserSync.tsx, the effect: a token in storage ends it, as does
\* synced = true; otherwise the session is fetched
UserSyncEffect ==
    /\ user_sync.version = "UserSync.tsx"
    /\ user_sync.effect_due
    /\ LET component == [user_sync EXCEPT !.effect_due = FALSE]
       IN user_sync' =
            IF getApiToken(TRUE) # << >> THEN setSynced(component, TRUE)
            ELSE IF component.synced THEN component
            ELSE [component EXCEPT !.pc = "session"]
    /\ UNCHANGED <<local_storage, session, session_user, last_request, mounts>>
    /\ SyncFrame

\* UserSync.tsx, fetch('/api/auth/session') settles: a failed fetch, a
\* session without user and a user without id or username set synced; a
\* complete user sets synced and is sent to api.syncUser
SessionFetched(ok, complete) ==
    /\ user_sync.version = "UserSync.tsx"
    /\ ~user_sync.effect_due
    /\ user_sync.pc = "session"
    /\ user_sync' =
         IF ok /\ SessionUser # << >> /\ complete
           THEN [setSynced(user_sync, TRUE) EXCEPT !.pc = "syncUser",
                                                   !.user = SessionUser]
           ELSE [setSynced(user_sync, TRUE) EXCEPT !.pc = "idle"]
    /\ UNCHANGED <<local_storage, session, session_user, last_request, mounts>>
    /\ SyncFrame

\* UserSync.tsx, api.syncUser settles: on success the token is stored and
\* 'user-synced' is dispatched, on failure synced is reset "to allow retry"
SyncUserSettled(ok) ==
    /\ user_sync.version = "UserSync.tsx"
    /\ ~user_sync.effect_due
    /\ user_sync.pc = "syncUser"
    /\ local_storage' = IF ok THEN setApiToken(TokenOf(user_sync.user[1]), TRUE)
                        ELSE local_storage
    /\ user_sync' =
         IF ok THEN [user_sync EXCEPT !.pc = "idle", !.user = << >>]
         ELSE [setSynced(user_sync, FALSE) EXCEPT !.pc = "idle", !.user = << >>]
    /\ UNCHANGED <<session, session_user, last_request, mounts>>
    /\ SyncFrame

\* part_000, the effect: the cleanup of the last run removes the listener;
\* with a token and synced = true nothing is done; otherwise the listener of
\* 'token-invalid' is added and, when not synced, performSync is started
UserSyncEffectV2 ==
    /\ user_sync.version = "part_000"
    /\ user_sync.effect_due
    /\ LET component == [user_sync EXCEPT !.effect_due = FALSE, !.listener = FALSE]
       IN user_sync' =
            IF getApiToken(TRUE) # << >> /\ component.synced THEN component
            ELSE [component EXCEPT !.listener = TRUE,
                                   !.pc = IF ~component.synced THEN "session" ELSE @]
    /\ UNCHANGED <<local_storage, session, session_user, last_request, mounts>>
    /\ SyncFrame

\* part_000, performSync has the session: a complete user is sent to
\* api.syncUser; otherwise performSync returns and synced is set
SessionFetchedV2(ok, complete) ==
    /\ user_sync.version = "part_000"
    /\ ~user_sync.effect_due
    /\ user_sync.pc = "session"
    /\ user_sync' =
         IF ok /\ SessionUser # << >> /\ complete
           THEN [user_sync EXCEPT !.pc = "syncUser", !.user = SessionUser]
           ELSE [setSynced(user_sync, TRUE) EXCEPT !.pc = "idle"]
    /\ UNCHANGED <<local_storage, session, session_user, last_request, mounts>>
    /\ SyncFrame

\* part_000, api.syncUser settles: on success the token is stored and
\* 'user-synced' is dispatched, a failure is logged; performSync returns and
\* synced is set
SyncUserSettledV2(ok) ==
    /\ user_sync.version = "part_000"
    /\ ~user_sync.effect_due
    /\ user_sync.pc = "syncUser"
    /\ local_storage' = IF ok THEN setApiToken(TokenOf(user_sync.user[1]), TRUE)
                        ELSE local_storage
    /\ user_sync' = [setSynced(user_sync, TRUE) EXCEPT !.pc = "idle", !.user = << >>]
    /\ UNCHANGED <<session, session_user, last_request, mounts>>
    /\ SyncFrame

\* part_000, the listener of 'token-invalid': synced is reset and
\* performSync is called.  No code dispatches 'token-invalid', so that this
\* is no step of the component.
handleTokenInvalid ==
    /\ user_sync.version = "part_000"
    /\ user_sync.listener
    /\ user_sync' = [setSynced(user_sync, FALSE) EXCEPT !.pc = "session"]
    /\ UNCHANGED <<local_storage, session, session_user, last_request, mounts>>
    /\ SyncFrame

\* the page sends an authenticated request (getProjects, ...)
PageRequest ==
    /\ session
    /\ user_sync.version # "none"
    /\ last_request' =
         << [authorization |-> apiRequest(ProjectsEndpoint, TRUE, TRUE).authorization,
             user |-> session_user[1],
             status |-> << >>] >>
    /\ UNCHANGED <<local_storage, session, session_user, user_sync, mounts>>
    /\ SyncFrame

\* the request returns: apiRequest returns the body, or throws
\* ApiClientError with the status; a request without token is not authorized
PageRequestReturns(status) ==
    /\ last_request # << >>
    /\ last_request[1].status = << >>
    /\ last_request[1].authorization = << >> => status = 401
    /\ last_request' = << [last_request[1] EXCEPT !.status = << status >>] >>
    /\ UNCHANGED <<local_storage, session, session_user, user_sync, mounts>>
    /\ SyncFrame

\* a step of the UserSync component
UserSyncStep ==
    \/ UserSyncEffect
    \/ \E ok \in BOOLEAN, complete \in BOOLEAN : SessionFetched(ok, complete)
    \/ \E ok \in BOOLEAN : SyncUserSettled(ok)
    \/ UserSyncEffectV2
    \/ \E ok \in BOOLEAN, complete \in BOOLEAN : SessionFetchedV2(ok, complete)
    \/ \E ok \in BOOLEAN : SyncUserSettledV2(ok)

SyncNext ==
    \/ \E user \in Users : signInAs(user)
    \/ signOutAction
    \/ \E version \in UserSyncVersions : Mount(version)
    \/ UserSyncStep
    \/ PageRequest
    \/ \E status \in {200, 401} : PageRequestReturns(status)

\* React runs the effect that is due, and every fetch of the component
\* settles, with whatever outcome
SyncSpec == ClientInit /\ [][SyncNext]_vars /\ WF_vars(UserSyncStep)

(***************************************************************************)
(* The effects of the pages.  One page is loaded at a time; UserSync, which *)
(* every page mounts, is seen here through its 'user-synced' event.         *)
(***************************************************************************)
\* localStorage.getItem(key): the only entry is the one setApiToken wrote
getItem(key) == IF key = API_TOKEN_KEY THEN local_storage ELSE << >>

\* text.includes(sub)
Includes(text, sub) ==
    \E i \in 1..(Len(text) + 1 - Len(sub)) :
        SubSeq(text, i, i + Len(sub) - 1) = sub

\* the message of the ApiClientError of a response that is not OK:
\* errorData.detail || response.statusText, after the prefix
ErrorMessage(detail, statusText) ==
    MessagePrefix \o (IF detail # << >> THEN detail ELSE statusText)

\* isAuthError of fetchProjects
isAuthError(message) ==
    \E text \in AuthTexts : Includes(message, text)

\* what the steps of the pages leave alone
PageFrame ==
    /\ UNCHANGED <<pipelineVars, sdkVars, authVars, dashVars, timedVars, requestVars>>
    /\ UNCHANGED <<session, fetch_log, pending_sync>>
    /\ UNCHANGED <<user_sync, session_user, last_request>>

\* fetchProjects is called: loading is set, the error is reset, and
\* api.getProjects() is sent
fetchProjects(page) ==
    [page EXCEPT !.loading = TRUE, !.error = << >>, !.started = @ + 1,
                 !.in_flight = @ \cup {page.started + 1}]

\* /projects is loaded and its effect runs: with a token the projects are
\* fetched at once, without one the page arms the 5-second timeout, listens
\* once for 'user-synced' and starts the 200 ms interval
LoadProjectsPage ==
    /\ mounts < MaxMounts
    /\ mounts' = mounts + 1
    /\ projects_fetch' =
         IF getApiToken(TRUE) # << >>
           THEN fetchProjects([NoProjectsPage EXCEPT !.mounted = TRUE])
           ELSE [NoProjectsPage EXCEPT !.mounted = TRUE, !.timeout = TRUE,
                                       !.once_listener = TRUE, !.interval = TRUE]
    /\ detail_fetch' = NoDetailPage
    /\ UNCHANGED local_storage
    /\ PageFrame

\* the 5-second timeout fires: "attempting fetch anyway"; the timer set at
\* the same time stops the interval
ProjectsTimeout ==
    /\ projects_fetch.timeout
    /\ projects_fetch.started < MaxProjectFetches
    /\ projects_fetch' =
         fetchProjects([projects_fetch EXCEPT !.timeout = FALSE, !.interval = FALSE])
    /\ UNCHANGED <<local_storage, detail_fetch, mounts>>
    /\ PageFrame

\* the interval finds a token: it clears the timeout and itself, removes the
\* listener and fetches
IntervalTick ==
    /\ projects_fetch.interval
    /\ getApiToken(TRUE) # << >>
    /\ projects_fetch.started < MaxProjectFetches
    /\ projects_fetch' =
         fetchProjects([projects_fetch EXCEPT !.timeout = FALSE, !.interval = FALSE,
                                              !.once_listener = FALSE])
    /\ UNCHANGED <<local_storage, detail_fetch, mounts>>
    /\ PageFrame

\* five seconds after the load the interval is stopped
IntervalCleanup ==
    /\ projects_fetch.interval
    /\ ~projects_fetch.timeout
    /\ projects_fetch' = [projects_fetch EXCEPT !.interval = FALSE]
    /\ UNCHANGED <<local_storage, detail_fetch, mounts>>
    /\ PageFrame

\* UserSync has synced: api.syncUser stored the token and 'user-synced' is
\* dispatched.  handleUserSyncedRetry fetches; handleUserSynced, if it is
\* still registered, clears the timeout and fetches as well
ProjectsUserSynced(token) ==
    /\ projects_fetch.mounted
    /\ ~projects_fetch.user_synced
    /\ projects_fetch.started + (IF projects_fetch.once_listener THEN 2 ELSE 1)
          <= MaxProjectFetches
    /\ local_storage' = setApiToken(token, TRUE)
    /\ LET retried == fetchProjects([projects_fetch EXCEPT !.user_synced = TRUE])
       IN projects_fetch' =
            IF projects_fetch.once_listener
              THEN fetchProjects([retried EXCEPT !.timeout = FALSE,
                                                 !.once_listener = FALSE])
              ELSE retried
    /\ UNCHANGED <<detail_fetch, mounts>>
    /\ PageFrame

\* api.getProjects() of request id returns: the projects are shown, or
\* 'Invalid response from server'
ProjectsRequestSucceeds(id, valid) ==
    /\ id \in projects_fetch.in_flight
    /\ projects_fetch' =
         [projects_fetch EXCEPT !.in_flight = @ \ {id},
                                !.error = IF valid THEN << >>
                                          ELSE << InvalidResponseMessage >>,
                                !.shown = << id >>,
                                !.loading = FALSE]
    /\ UNCHANGED <<local_storage, detail_fetch, mounts>>
    /\ PageFrame

\* api.getProjects() of request id throws the ApiClientError of a response
\* that is not OK: the message is shown unless isAuthError
ProjectsRequestFails(id, status, detail, statusText) ==
    /\ id \in projects_fetch.in_flight
    /\ LET message == ErrorMessage(detail, statusText)
       IN projects_fetch' =
            [projects_fetch EXCEPT !.in_flight = @ \ {id},
                                   !.error = IF ~isAuthError(message)
                                               THEN << message >> ELSE @,
                                   !.shown = << id >>,
                                   !.loading = FALSE]
    /\ UNCHANGED <<local_storage, detail_fetch, mounts>>
    /\ PageFrame

\* a detail page is loaded
LoadDetailPage(page, valid_id) ==
    /\ mounts < MaxMounts
    /\ mounts' = mounts + 1
    /\ detail_fetch' = [NoDetailPage EXCEPT !.page = page, !.valid_id = valid_id]
    /\ projects_fetch' = NoProjectsPage
    /\ UNCHANGED local_storage
    /\ PageFrame

\* the request of fetchData is sent, the wait having ended by cause
StartsRequest(page, cause) ==
    [page EXCEPT !.started = @ + 1, !.in_flight = @ + 1,
                 !.resolved = Append(@, cause)]

\* a variant without hasFetchedRef
DetailEffect_NoRef ==
    /\ detail_fetch.page # "none"
    /\ detail_fetch.effects < MaxEffectRuns
    /\ LET page == [detail_fetch EXCEPT !.effects = @ + 1]
       IN detail_fetch' =
            IF ~page.valid_id
              THEN [page EXCEPT !.error = TRUE, !.loading = FALSE]
            ELSE IF getItem(TokenKeyOf(page.page)) # << >>
              THEN StartsRequest(page, "token")
            ELSE [page EXCEPT !.waiting = @ + 1]
    /\ UNCHANGED <<local_storage, projects_fetch, mounts>>
    /\ PageFrame

\* the effect of a detail page runs: an invalid id is an error; part_003
\* returns when hasFetchedRef is set, and sets it; fetchData reads the token
\* from storage and, without one, arms the 2-second timer and listens once
\* for 'user-synced'
DetailEffect ==
    /\ detail_fetch.page # "none"
    /\ detail_fetch.effects < MaxEffectRuns
    /\ LET page == [detail_fetch EXCEPT !.effects = @ + 1]
           fetching == [page EXCEPT !.hasFetchedRef = (page.page = "part_003")]
       IN detail_fetch' =
            IF ~page.valid_id
              THEN [page EXCEPT !.error = TRUE, !.loading = FALSE]
            ELSE IF page.hasFetchedRef
              THEN page
            ELSE IF getItem(TokenKeyOf(page.page)) # << >>
              THEN StartsRequest(fetching, "token")
            ELSE [fetching EXCEPT !.waiting = @ + 1]
    /\ UNCHANGED <<local_storage, projects_fetch, mounts>>
    /\ PageFrame

\* the 2-second timer of a waiting fetchData fires
DetailTimer ==
    /\ detail_fetch.waiting > 0
    /\ detail_fetch' = StartsRequest([detail_fetch EXCEPT !.waiting = @ - 1], "timer")
    /\ UNCHANGED <<local_storage, projects_fetch, mounts>>
    /\ PageFrame

\* every fetchData that waits is resolved by the event
RECURSIVE ResolveAll(_)
ResolveAll(page) ==
    IF page.waiting = 0 THEN page
    ELSE ResolveAll(StartsRequest([page EXCEPT !.waiting = @ - 1], "event"))

\* UserSync has synced while a detail page is loaded: api.syncUser stored
\* the token and 'user-synced' is dispatched
DetailUserSynced(token) ==
    /\ detail_fetch.page # "none"
    /\ ~detail_fetch.user_synced
    /\ local_storage' = setApiToken(token, TRUE)
    /\ detail_fetch' = ResolveAll([detail_fetch EXCEPT !.user_synced = TRUE])
    /\ UNCHANGED <<projects_fetch, mounts>>
    /\ PageFrame

\* the request of fetchData returns or throws: finally loading is reset
DetailRequestSettles(ok) ==
    /\ detail_fetch.in_flight > 0
    /\ detail_fetch' = [detail_fetch EXCEPT !.in_flight = @ - 1,
                                            !.error = @ \/ ~ok,
                                            !.loading = FALSE]
    /\ UNCHANGED <<local_storage, projects_fetch, mounts>>
    /\ PageFrame

\* the request of a detail page settles, one way or the other
DetailRequestEnds == \E ok \in BOOLEAN : DetailRequestSettles(ok)

PagesNext ==
    \/ LoadProjectsPage
    \/ ProjectsTimeout
    \/ IntervalTick
    \/ IntervalCleanup
    \/ \E token \in Tokens : ProjectsUserSynced(token)
    \/ \E id \in 1..MaxProjectFetches, valid \in BOOLEAN :
          ProjectsRequestSucceeds(id, valid)
    \/ \E id \in 1..MaxProjectFetches, status \in ErrorStatuses,
          detail \in DetailTexts, http2 \in BOOLEAN :
          ProjectsRequestFails(id, status, detail,
                               IF http2 THEN << >> ELSE StatusText(status))
    \/ \E page \in DetailPages, valid_id \in BOOLEAN : LoadDetailPage(page, valid_id)
    \/ DetailEffect
    \/ DetailTimer
    \/ \E token \in Tokens : DetailUserSynced(token)
    \/ DetailRequestEnds

\* React runs the effect of a mounted page, the browser runs a timer that is
\* due, and a request that was sent settles
PagesSpec ==
    /\ ClientInit
    /\ [][PagesNext]_vars
    /\ WF_vars(DetailEffect)
    /\ WF_vars(DetailTimer)
    /\ WF_vars(DetailRequestEnds)

(***************************************************************************)
(* Properties.                                                             *)
(***************************************************************************)
RowsOf(e) == error_analysis[e]

TaskIds == DOMAIN tasks

EventIds == DOMAIN error_events

\* the event whose ingestion a step is, when the step is an ingestion
Ingested == Len(error_events) + 1

IsIngestion == Len(error_events') = Len(error_events) + 1

\* a step hands task t to worker w
Delivered(w, t) ==
    /\ workers[w].pc = "idle"
    /\ workers'[w].pc # "idle"
    /\ workers'[w].task = t

\* C1: no AnalysisRecord exists for an error event whose status_code is
\* null or below 500, whatever ingestions, enqueues, duplicate or stale
\* deliveries, retries and crashes have happened.
C1_NoAnalysisBelowThreshold ==
    \A e \in EventIds :
        (error_events[e].status_code = NULL \/ error_events[e].status_code < 500)
            => RowsOf(e) = << >>

\* a task for an event with a null status_code was delivered and completed
C1_Witness ==
    \E t \in TaskIds :
        /\ error_events[tasks[t].error_event_id].status_code = NULL
        /\ tasks[t].state = "succeeded"

\* C2: at most one AnalysisRecord exists per error event, and when two
\* workers have processed the same task concurrently and both have run the
\* persist step, exactly one AnalysisRecord is persisted.
C2_AtMostOneAnalysis ==
    /\ \A e \in 1..MaxEvents : Len(RowsOf(e)) <= 1
    /\ \A w1, w2 \in Workers :
          ( /\ w1 # w2
            /\ workers[w1].pc = "ack" /\ workers[w2].pc = "ack"
            /\ workers[w1].task = workers[w2].task )
          => Len(RowsOf(EventOf(w1))) = 1

\* both workers have passed the idempotency check and run the persist step
\* for the same task
C2_Witness ==
    \E w1, w2 \in Workers :
        /\ w1 # w2
        /\ workers[w1].pc = "ack" /\ workers[w2].pc = "ack"
        /\ workers[w1].task = workers[w2].task
        /\ Len(RowsOf(EventOf(w1))) = 1

\* C3: an ingestion creates a TaskRecord only for an event whose status_code
\* is non-null and >= 500, the TaskRecord it then creates is a pending task
\* for that event, it creates one whenever the broker takes it, and for any
\* other event it creates none.
C3_TriggerPolicy ==
    [][ IsIngestion =>
          LET event == error_events'[Ingested]
              severe == event.status_code # NULL /\ event.status_code >= 500
              task == [error_event_id |-> Ingested, state |-> "pending",
                       attempts |-> 0]
          IN /\ tasks' # tasks => severe /\ tasks' = Append(tasks, task)
             /\ ~severe => tasks' = tasks
             /\ \A p \in Payloads :
                   (Ingest(p, TRUE) /\ severe) => tasks' = Append(tasks, task)
      ]_vars

\* an event with status_code >= 500 is stored and its task is pending
C3_Witness ==
    \E e \in EventIds :
        /\ error_events[e].status_code >= 500
        /\ \E t \in TaskIds :
              tasks[t].error_event_id = e /\ tasks[t].state = "pending"

\* C4: when the enqueue fails the event is stored all the same and the
\* ingestion call answers with success; the answer is given in the step
\* that stores the event, before any analysis of the event exists, and a
\* stored event is never removed or changed.
C4_EnqueueFailureSwallowed ==
    /\ [][ IsIngestion =>
              \A p \in Payloads :
                 Ingest(p, FALSE) =>
                    /\ error_events' = Append(error_events,
                           [status_code |-> p.status_code, stack |-> p.stack,
                            response |-> "accepted"])
                    /\ tasks' = tasks
         ]_vars
    /\ [][ IsIngestion => error_analysis'[Ingested] = << >> ]_vars
    /\ [][ \A e \in EventIds :
              e \in DOMAIN error_events' /\ error_events'[e] = error_events[e]
         ]_vars
    /\ [](\A e \in EventIds : error_events[e].response = "accepted")

\* an event with status_code >= 500 is stored and answered, and no task was
\* enqueued for it
C4_Witness ==
    \E e \in EventIds :
        /\ error_events[e].status_code >= 500
        /\ error_events[e].response = "accepted"
        /\ \A t \in TaskIds : tasks[t].error_event_id # e

\* C5: a succeeded task has failed fewer than 3 times and, when its event
\* has status_code >= 500, exactly one AnalysisRecord exists for the event;
\* once succeeded the task is not changed, retried or delivered again.
C5_SucceededOnce ==
    /\ [](\A t \in TaskIds :
            tasks[t].state = "succeeded" =>
               /\ tasks[t].attempts < 3
               /\ LET e == tasks[t].error_event_id
                  IN (error_events[e].status_code # NULL
                        /\ error_events[e].status_code >= 500)
                       => Len(RowsOf(e)) = 1)
    /\ [][ \A t \in TaskIds :
              tasks[t].state = "succeeded" =>
                 /\ tasks'[t] = tasks[t]
                 /\ \A w \in Workers : ~Delivered(w, t)
         ]_vars

\* a task has failed twice and then succeeded, the AnalysisRecord exists
C5_Witness ==
    \E t \in TaskIds :
        /\ tasks[t].state = "succeeded"
        /\ tasks[t].attempts = 2
        /\ Len(RowsOf(tasks[t].error_event_id)) = 1

C7_HasSourceCode ==
    /\ [][ \A w \in Workers :
              ( /\ workers[w].pc = "persist" /\ workers'[w].pc = "ack"
                /\ error_analysis' # error_analysis )
              => LET rows == error_analysis'[EventOf(w)]
                 IN rows[Len(rows)].has_source_code = workers[w].has_source_code
         ]_vars
    /\ [][ \A w \in Workers :
              (workers[w].pc = "engine" /\ workers'[w].pc = "persist")
              => (workers'[w].has_source_code <=> workers[w].snippets >= 1)
         ]_vars
    /\ [][ \A w \in Workers :
              workers[w].pc = "fetch" =>
                 \A o \in FetchOutcomes :
                    Fetch(w, o) =>
                       workers'[w].snippets =
                          IF o = "ok" THEN workers[w].snippets + 1
                          ELSE workers[w].snippets
         ]_vars
    /\ [](\A e \in 1..MaxEvents : \A i \in DOMAIN RowsOf(e) :
             RowsOf(e)[i].has_source_code => repository)

\* an AnalysisRecord with has_source_code = true is persisted
C7_Witness ==
    \E e \in EventIds :
        RowsOf(e) # << >> /\ RowsOf(e)[1].has_source_code

\* C8: a fetch that ends NotFound or AccessDenied leaves the task and its
\* attempt counter unchanged; the worker notes the frame as without snippet
\* and goes on, to the next frame or to the Analysis Engine; an attempt in
\* which every fetch failed comes out of the engine with
\* has_source_code = false.
C8_PermanentFetchFailure ==
    /\ [][ \A w \in Workers :
              workers[w].pc = "fetch" =>
                 \A o \in {"NotFound", "AccessDenied"} :
                    Fetch(w, o) =>
                       /\ tasks' = tasks
                       /\ error_analysis' = error_analysis
                       /\ workers'[w].task = workers[w].task
                       /\ workers'[w].tried = workers[w].tried + 1
                       /\ workers'[w].snippets = workers[w].snippets
                       /\ workers'[w].pc \in {"fetch", "engine"}
                       /\ Len(workers[w].frames) = 1 => workers'[w].pc = "engine"
         ]_vars
    /\ [][ \A w \in Workers :
              ( /\ workers[w].pc = "engine" /\ workers'[w].pc = "persist"
                /\ workers[w].snippets = 0 )
              => ~workers'[w].has_source_code
         ]_vars

\* the fetch for the only frame of a stack failed and the AnalysisRecord of
\* the event is persisted all the same, with has_source_code false
C8_Witness ==
    \E e \in EventIds :
        /\ repository
        /\ Len(parse_stack_trace(error_events[e].stack)) = 1
        /\ RowsOf(e) # << >>
        /\ ~RowsOf(e)[1].has_source_code

\* C9: when the check step finds an AnalysisRecord for the task's event, or
\* a status_code that is null or below 500, the worker returns to idle at
\* once (no parse, fetch, engine or persist step), the task becomes
\* succeeded if it is in flight and is unchanged otherwise (never
\* retry-scheduled by this step), and nothing is written.
C9_NoOpAcknowledged ==
    [][ \A w \in Workers :
           ( /\ Check(w)
             /\ LET e == EventOf(w)
                IN \/ RowsOf(e) # << >>
                   \/ error_events[e].status_code = NULL
                   \/ error_events[e].status_code < 500 )
           => LET t == workers[w].task
              IN /\ workers'[w] = IdleWorker
                 /\ error_analysis' = error_analysis
                 /\ tasks'[t].attempts = tasks[t].attempts
                 /\ tasks'[t].state =
                       IF tasks[t].state = "in-flight" THEN "succeeded"
                       ELSE tasks[t].state
      ]_vars

\* the task of an event with status_code 404 was delivered and acknowledged
C9_Witness ==
    \E t \in TaskIds :
        /\ error_events[tasks[t].error_event_id].status_code = 404
        /\ tasks[t].state = "succeeded"
        /\ \A w \in Workers : workers[w].pc = "idle"

\* the frames a stack trace can give
FrameSet ==
    [file : {"a.js", "b.js", "c.js"}, line : {10, 20, 30}, symbol : {"f", "g", ""}]

\* C10: the Stack Trace Interpreter gives a sequence of frames for the stack
\* of every stored event, the empty one for an absent stack and never more
\* frames than lines; the parse step stores that sequence, goes on to the
\* fetch or engine step and leaves the task as it is.
C10_ParseTotal ==
    /\ [](\A e \in EventIds :
            LET stack == error_events[e].stack
                frames == parse_stack_trace(stack)
            IN /\ frames \in Seq(FrameSet)
               /\ stack = NoStack => frames = << >>
               /\ stack # NoStack => Len(frames) <= Len(stack[1]))
    /\ [](\A w \in Workers : workers[w].frames \in Seq(FrameSet))
    /\ [][ \A w \in Workers :
              Parse(w) =>
                 /\ tasks' = tasks
                 /\ workers'[w].frames =
                       parse_stack_trace(error_events[EventOf(w)].stack)
                 /\ workers'[w].pc \in {"fetch", "engine"}
         ]_vars

\* the absent stack of an event was parsed to no frames and the workflow
\* has reached the Analysis Engine
C10_Witness ==
    \E w \in Workers :
        /\ workers[w].pc = "engine"
        /\ error_events[EventOf(w)].stack = NoStack
        /\ workers[w].frames = << >>
        /\ repository

\* C18: once an AnalysisRecord exists for an event, no step changes, removes
\* or replaces it, whatever deliveries, retries, duplicate tasks, timeouts
\* and crashes follow: the rows of the event stay as they are.
C18_AnalysisNeverUpdated ==
    [][ \A e \in 1..MaxEvents :
           RowsOf(e) # << >> => error_analysis'[e] = error_analysis[e]
      ]_vars

\* two deliveries of a retried task have both run the persist step, one of
\* them after the other had created the AnalysisRecord
C18_Witness ==
    \E w1, w2 \in Workers :
        /\ w1 # w2
        /\ workers[w1].pc = "ack" /\ workers[w2].pc = "ack"
        /\ workers[w1].task = workers[w2].task
        /\ tasks[workers[w1].task].attempts >= 1
        /\ RowsOf(EventOf(w1)) # << >>
        /\ RowsOf(EventOf(w1))[1].has_source_code

\* a task in a terminal state
Terminal(t) == tasks[t].state \in {"succeeded", "dead"}

\* C19: under fair scheduling of workers and broker, every enqueued task
\* eventually is succeeded or dead, crashes of workers included; a task in
\* flight that no worker holds can be delivered again whenever a worker is
\* idle, and a task becomes succeeded only in the step in which a worker
\* that holds it acknowledges it.
C19_EventuallyTerminal ==
    /\ \A t \in 1..MaxTasks : (t \in TaskIds) ~> (t \in TaskIds /\ Terminal(t))
    /\ [][ \A t \in TaskIds :
              (tasks'[t].state = "succeeded" /\ tasks[t].state # "succeeded")
              => \E w \in Workers :
                    /\ Holding(w) = t
                    /\ workers[w].pc \in {"check", "ack"}
                    /\ Acknowledge(w)
         ]_vars
    /\ [](\A t \in TaskIds :
             (tasks[t].state = "in-flight" /\ \E w \in Workers : workers[w].pc = "idle")
             => ENABLED (\E w \in Workers : Redeliver(w, t)))

\* a worker has crashed on its task: the task is in flight, unacknowledged,
\* and no worker holds it
C19_Witness ==
    \E t \in TaskIds :
        /\ tasks[t].state = "in-flight"
        /\ \A w \in Workers : workers[w].pc = "idle"

\* C22: the persist step of a worker whose insert meets an existing
\* AnalysisRecord of the event writes nothing, leaves the task and its
\* attempt counter as they are and goes on to the acknowledge step; the
\* acknowledge step leaves the attempt counter, makes an in-flight task
\* succeeded and never puts a task in retry-scheduled or dead.
C22_RaceLoserAcknowledged ==
    /\ [][ \A w \in Workers :
              (workers[w].pc = "persist" /\ RowsOf(EventOf(w)) # << >>) =>
                 (Persist(w, TRUE) =>
                    /\ error_analysis' = error_analysis
                    /\ tasks' = tasks
                    /\ workers'[w].pc = "ack"
                    /\ workers'[w].task = workers[w].task)
         ]_vars
    /\ [][ \A w \in Workers :
              workers[w].pc = "ack" =>
                 (Ack(w) =>
                    LET t == workers[w].task
                    IN /\ tasks'[t].attempts = tasks[t].attempts
                       /\ tasks'[t].state =
                             IF tasks[t].state = "in-flight" THEN "succeeded"
                             ELSE tasks[t].state
                       /\ workers'[w] = IdleWorker)
         ]_vars

\* two workers have run the persist step for the same task, which has not
\* failed; one insert was discarded, the task is still to be acknowledged
C22_Witness ==
    \E w1, w2 \in Workers :
        /\ w1 # w2
        /\ workers[w1].pc = "ack" /\ workers[w2].pc = "ack"
        /\ workers[w1].task = workers[w2].task
        /\ tasks[workers[w1].task].state = "in-flight"
        /\ tasks[workers[w1].task].attempts = 0
        /\ Len(RowsOf(EventOf(w1))) = 1

\* the order of the workflow's steps within an attempt; an attempt ends
\* (idle) after the check as a no-op, after the acknowledgement, with a
\* failure or with a crash
StepOrder ==
    { <<"idle", "check">>, <<"check", "parse">>, <<"parse", "fetch">>,
      <<"parse", "engine">>, <<"fetch", "engine">>, <<"engine", "persist">>,
      <<"persist", "ack">>,
      <<"check", "idle">>, <<"parse", "idle">>, <<"fetch", "idle">>,
      <<"engine", "idle">>, <<"persist", "idle">>, <<"ack", "idle">> }

\* the event of task t meets the threshold
Severe(t) ==
    LET event == error_events[tasks[t].error_event_id]
    IN event.status_code # NULL /\ event.status_code >= 500

\* C23: a worker takes the steps of the workflow in their order, on the one
\* task its attempt is for; a task whose event has status_code >= 500
\* becomes succeeded only in a state in which the event has an
\* AnalysisRecord; a crash between persist and acknowledge leaves the task
\* unacknowledged, and the check step of its redelivery acknowledges at
\* once, writing nothing.
C23_StepsInOrder ==
    /\ [][ \A w \in Workers :
              /\ workers'[w].pc # workers[w].pc
                    => <<workers[w].pc, workers'[w].pc>> \in StepOrder
              /\ (workers[w].pc # "idle" /\ workers'[w].pc # "idle")
                    => workers'[w].task = workers[w].task
         ]_vars
    /\ [][ \A t \in TaskIds :
              (tasks'[t].state = "succeeded" /\ tasks[t].state # "succeeded"
                 /\ Severe(t))
              => RowsOf(tasks[t].error_event_id) # << >>
         ]_vars
    /\ [][ \A w \in Workers :
              workers[w].pc = "ack" =>
                 (Crash(w) => tasks' = tasks /\ error_analysis' = error_analysis)
         ]_vars
    /\ [][ \A w \in Workers :
              (workers[w].pc = "check" /\ RowsOf(EventOf(w)) # << >>) =>
                 (Check(w) =>
                    /\ workers'[w] = IdleWorker
                    /\ error_analysis' = error_analysis
                    /\ tasks'[workers[w].task] = Acknowledged(tasks[workers[w].task]))
         ]_vars

\* the worker crashed between persist and acknowledge and the task has been
\* delivered again: the AnalysisRecord exists, the task is in flight, the
\* worker that holds it is at the check step and the other worker is idle
C23_Witness ==
    \E w \in Workers :
        /\ workers[w].pc = "check"
        /\ tasks[workers[w].task].state = "in-flight"
        /\ RowsOf(EventOf(w)) # << >>
        /\ \A v \in Workers \ {w} : workers[v].pc = "idle"

\* the transitions of a TaskRecord
TaskTransitions ==
    { <<"pending", "in-flight">>, <<"in-flight", "succeeded">>,
      <<"in-flight", "retry-scheduled">>, <<"retry-scheduled", "in-flight">>,
      <<"in-flight", "dead">> }

\* C24: a TaskRecord is created pending, every change of its state is one
\* of pending -> in-flight, in-flight -> succeeded, in-flight ->
\* retry-scheduled, retry-scheduled -> in-flight, in-flight -> dead, and a
\* succeeded or dead task is never changed or removed.
C24_TaskTransitions ==
    /\ [][ \A t \in DOMAIN tasks' :
              IF t \in TaskIds
              THEN /\ tasks'[t].state # tasks[t].state
                         => <<tasks[t].state, tasks'[t].state>> \in TaskTransitions
                   /\ tasks[t].state \in {"succeeded", "dead"}
                         => tasks'[t] = tasks[t]
              ELSE tasks'[t].state = "pending"
         ]_vars
    /\ [][ \A t \in TaskIds : t \in DOMAIN tasks' ]_vars

\* a task has gone pending -> in-flight -> retry-scheduled -> in-flight ->
\* retry-scheduled
C24_Witness ==
    \E t \in TaskIds :
        tasks[t].state = "retry-scheduled" /\ tasks[t].attempts = 2

PostsOf(e) == {p \in DOMAIN axios_posts : axios_posts[p].err = e}

\* a step is a pass of error e through a middleware instance
IsPass(e) == passes'[e] = passes[e] + 1

\* the POST a step issues, when it issues one
Issued == Len(axios_posts) + 1

IssuesPost == Len(axios_posts') = Len(axios_posts) + 1

\* C11: every pass of an error through the middleware calls next(err) once,
\* with that error and in the handler's own step: it is called as often as
\* the error was passed, be the error ingested, skipped as already ingested,
\* its POST failed or still pending; the POST the pass issues is still
\* pending when next(err) has been called, and no later step (the POST
\* settling) calls next.
C11_NextCalledOnce ==
    /\ [](\A e \in Errors : next_calls[e] = passes[e])
    /\ [][ \A e \in Errors :
              IsPass(e) =>
                 /\ next_calls' = [next_calls EXCEPT ![e] = @ + 1]
                 /\ IssuesPost => axios_posts'[Issued].axios = "pending"
         ]_vars
    /\ [][ next_calls' # next_calls => \E e \in Errors : IsPass(e) ]_vars

\* an error was ingested, its POST failed, and it was passed again and
\* skipped: next was called both times
C11_Witness ==
    \E p \in DOMAIN axios_posts :
        /\ axios_posts[p].axios = "rejected"
        /\ passes[axios_posts[p].err] = 2
        /\ next_calls[axios_posts[p].err] = 2

\* C12: at most one POST is issued per error object, whatever the number of
\* passes and the middleware instances: the first pass issues one POST for
\* the error and marks it as ingested, every later pass issues none.
C12_PostedAtMostOnce ==
    /\ [](\A e \in Errors : Cardinality(PostsOf(e)) <= 1)
    /\ [][ \A e \in Errors :
              IsPass(e) =>
                 IF passes[e] = 0
                 THEN /\ IssuesPost
                      /\ axios_posts'[Issued].err = e
                      /\ SubSeq(axios_posts', 1, Len(axios_posts)) = axios_posts
                      /\ errs'[e].ingested
                 ELSE axios_posts' = axios_posts
         ]_vars

\* an error was passed three times and posted once
C12_Witness ==
    \E e \in Errors : passes[e] = 3 /\ Cardinality(PostsOf(e)) = 1

\* the length of the segment at the head of s, up to the next '/'
RECURSIVE SegmentLen(_)
SegmentLen(s) ==
    IF s = << >> \/ Head(s) = "/" THEN 0 ELSE 1 + SegmentLen(Tail(s))

\* a path segment that is a numeric ID or a UUID
IsIdSegment(seg) ==
    \/ seg # << >> /\ \A i \in DOMAIN seg : seg[i] \in Digits
    \/ /\ Len(seg) = UuidLen
       /\ \A i \in 1..UuidLen :
             IF i \in UuidHyphens THEN seg[i] = "-" ELSE seg[i] \in HexDigits

\* the path with every ID segment replaced by ':id', the rest as it is
RECURSIVE PathWithIdSegments(_)
PathWithIdSegments(s) ==
    IF s = << >> THEN << >>
    ELSE IF Head(s) = "/"
         THEN LET n == SegmentLen(Tail(s))
                  seg == SubSeq(s, 2, n + 1)
              IN << "/" >>
                    \o (IF IsIdSegment(seg) THEN <<":", "i", "d">> ELSE seg)
                    \o PathWithIdSegments(SubSeq(s, n + 2, Len(s)))
         ELSE LET n == SegmentLen(s)
              IN SubSeq(s, 1, n) \o PathWithIdSegments(SubSeq(s, n + 1, Len(s)))

\* C13 as stated: the path of the POST a pass issues is the originalUrl
\* without its query string, with every segment that is a numeric ID or a
\* UUID replaced by ':id' and every other segment unchanged.
C13_PathSegmentsSanitized ==
    [][ IssuesPost =>
          \A instance \in Instances, e \in Errors, originalUrl \in OriginalUrls,
             resStatusCode \in ResStatusCodes :
             (IsPass(e) /\ errorIngestionMiddleware(instance, e, originalUrl,
                                                    resStatusCode))
             => axios_posts'[Issued].path
                   = PathWithIdSegments(BeforeQuery(originalUrl))
      ]_vars

\* C14: the status_code of the POST a pass issues is the error's statusCode
\* if set, otherwise the error's status if set, otherwise the response's
\* statusCode if it is not 200, otherwise 500.
C14_StatusCodeSent ==
    [][ IssuesPost =>
          \A e \in Errors, resStatusCode \in ResStatusCodes :
             (IsPass(e) /\ \E instance \in Instances, originalUrl \in OriginalUrls :
                  errorIngestionMiddleware(instance, e, originalUrl, resStatusCode))
             => axios_posts'[Issued].status_code =
                   IF errs[e].statusCode # NULL THEN errs[e].statusCode
                   ELSE IF errs[e].status # NULL THEN errs[e].status
                   ELSE IF resStatusCode # 200 THEN resStatusCode
                   ELSE 500
      ]_vars

\* the error with a status and no statusCode was posted with its status
C14_Witness ==
    \E p \in DOMAIN axios_posts :
        /\ errs[axios_posts[p].err].statusCode = NULL
        /\ errs[axios_posts[p].err].status = 400
        /\ axios_posts[p].status_code = 400

\* C15: the promise of sendErrorEvent is never rejected and is resolved as
\* soon as the POST has settled, failed or not; the step in which a POST
\* settles changes nothing else (no error object, no call of next, no new
\* POST), and no POST is ever issued again for an error whose POST failed.
C15_PostFailureSwallowed ==
    /\ [](\A p \in DOMAIN axios_posts :
            /\ axios_posts[p].promise # "rejected"
            /\ axios_posts[p].axios # "pending"
                  => axios_posts[p].promise = "resolved")
    /\ [][ \A p \in DOMAIN axios_posts :
              axios_posts'[p].axios # axios_posts[p].axios =>
                 /\ Len(axios_posts') = Len(axios_posts)
                 /\ errs' = errs /\ next_calls' = next_calls /\ passes' = passes
         ]_vars
    /\ [][ \A p \in DOMAIN axios_posts :
              axios_posts[p].axios = "rejected" =>
                 \A q \in DOMAIN axios_posts' :
                    axios_posts'[q].err = axios_posts[p].err => q = p
         ]_vars

\* the POST of an error failed, the error was passed once more, and there is
\* still that one POST, its promise resolved
C15_Witness ==
    \E p \in DOMAIN axios_posts :
        /\ axios_posts[p].axios = "rejected"
        /\ axios_posts[p].promise = "resolved"
        /\ passes[axios_posts[p].err] >= 2
        /\ PostsOf(axios_posts[p].err) = {p}

\* C16 as stated: handling an error leaves the error value unchanged, no
\* marker is attached to it.
C16_ErrorValueUnchanged ==
    [][ \A e \in Errors : errs'[e] = errs[e] ]_vars

(***************************************************************************)
(* Properties of the dashboard's route middleware.                         *)
(***************************************************************************)
\* pathname is base or a path below it
Under(pathname, base) ==
    pathname = base \/ StartsWith(pathname, base \o <<"/">>)

\* C17 as stated: every request without a session whose path is neither
\* '/login' nor under '/api/auth' is redirected to '/login' with callbackUrl
\* set to the requested path, and every logged-in request to '/login' is
\* redirected to '/projects'.
C17_UnauthenticatedRedirected ==
    \A i \in DOMAIN auth_log :
       LET req == auth_log[i]
       IN /\ ( /\ ~req.isLoggedIn
               /\ req.pathname # LoginPath
               /\ ~Under(req.pathname, AuthApiPrefix) )
             => req.response = Redirect(LoginPath, req.pathname)
          /\ (req.isLoggedIn /\ req.pathname = LoginPath)
             => req.response = Redirect(ProjectsPath, << >>)

(***************************************************************************)
(* Properties of the dashboard's pages.                                    *)
(***************************************************************************)
\* C20: when the error page has fetched an event without analysis it shows
\* the event's details with the analysis as 'Pending', and when the project
\* page has fetched its events it shows the project with 'Pending' for
\* every event without analysis; either page is in its error view only with
\* an error message from an invalid id or a failed request, never because an
\* analysis is missing.
C20_MissingAnalysisPending ==
    /\ [][ \A data \in ErrorEventsWithAnalysis :
              (DetailFetched(data) /\ data.analysis = << >>)
              => /\ ErrorDetailView(detail_page') = "details"
                 /\ AnalysisBadge(detail_page'.errorData[1]) = "Pending"
         ]_vars
    /\ [][ \A events \in ErrorEventLists :
              ProjectFetched(events, TRUE)
              => /\ ProjectView(project_page') = "project"
                 /\ \A i \in DOMAIN events :
                       ~events[i].has_analysis
                          => RowBadge(project_page'.errors[i]) = "Pending"
         ]_vars
    /\ [](ErrorDetailView(detail_page) = "error" => detail_page.error # << >>)
    /\ [](ProjectView(project_page) = "error" => project_page.error # << >>)

\* both pages have loaded an event with status_code 500 and no analysis
C20_Witness ==
    /\ ~detail_page.loading
    /\ detail_page.errorData # << >>
    /\ detail_page.errorData[1].event.status_code = 500
    /\ detail_page.errorData[1].analysis = << >>
    /\ ~project_page.loading
    /\ \E i \in DOMAIN project_page.errors :
          /\ project_page.errors[i].status_code = 500
          /\ ~project_page.errors[i].has_analysis

(***************************************************************************)
(* Properties of the dashboard's API client.                               *)
(***************************************************************************)
\* the step is a run of signOutAction
IsSignOut == session /\ ~session'

\* C21 as stated: when signOutAction has completed, no API token is in the
\* browser's storage.
C21_SignOutClearsToken ==
    [][ IsSignOut => local_storage' = << >> ]_vars

\* the request a step sends, when it sends one
Sent == Len(fetch_log) + 1

SendsRequest == Len(fetch_log') = Len(fetch_log) + 1

\* C30: a request of apiRequest has an Authorization header if and only if
\* the call requires auth and a token is in storage, and the header then
\* carries the token that is in storage when the request is sent, which is
\* the one stored last; the request of syncUser has no Authorization
\* header; the stored token changes only when a syncUser call in the browser
\* has succeeded, to the api_token that call returned.
C30_BearerToken ==
    /\ [][ SendsRequest =>
              LET request == fetch_log'[Sent]
              IN /\ SubSeq(fetch_log', 1, Len(fetch_log)) = fetch_log
                 /\ request.authorization # << >>
                       <=> (request.requireAuth /\ local_storage # << >>)
                 /\ request.authorization # << >>
                       => request.authorization = local_storage
                 /\ request.endpoint = SyncUserEndpoint
                       => ~request.requireAuth /\ request.authorization = << >>
         ]_vars
    /\ [][ local_storage' # local_storage =>
              \E api_token \in Tokens :
                 /\ syncUserSettles(TRUE, TRUE, api_token)
                 /\ local_storage' = << api_token >>
         ]_vars
    /\ [][ \A window \in BOOLEAN, api_token \in Tokens :
              syncUserSettles(window, FALSE, api_token)
                 => local_storage' = local_storage
         ]_vars

\* a request was sent with the first token stored, then syncUser (sent
\* without header) stored another one and the next request carried that one
C30_Witness ==
    \E i, j, k \in DOMAIN fetch_log :
        /\ i < j /\ j < k
        /\ fetch_log[i].authorization = << "tokenA" >>
        /\ fetch_log[j].endpoint = SyncUserEndpoint
        /\ fetch_log[j].authorization = << >>
        /\ fetch_log[k].authorization = << "tokenB" >>
        /\ local_storage = << "tokenB" >>

(***************************************************************************)
(* Properties of the work queue's timing.                                  *)
(***************************************************************************)
\* the step hands the task to a worker
TimedDelivered ==
    \E w \in Workers : ~Running(w) /\ started'[w] # NULL

\* C27: the task is handed to a worker from retry-scheduled only when its
\* next-eligible-time has elapsed; a failed attempt that schedules a retry
\* sets next-eligible-time to the time of the failure plus the backoff
\* delay of the attempt count; the backoff delay doubles from one attempt
\* count to the next until it reaches the maximum delay of 10 minutes,
\* which it never exceeds.
C27_BackoffRespected ==
    /\ [][ (TimedDelivered /\ timed_task.state = "retry-scheduled")
              => clock >= timed_task.next_eligible_time
         ]_vars
    /\ [][ (timed_task.state # "retry-scheduled"
              /\ timed_task'.state = "retry-scheduled")
              => /\ timed_task'.next_eligible_time
                      = clock + BackoffDelay(timed_task'.attempts)
                 /\ timed_task'.next_eligible_time > clock
                 /\ timed_task'.next_eligible_time <= clock + 10
         ]_vars
    /\ [](\A n \in 1..MaxBackoffAttempts :
             /\ BackoffDelay(n) <= 10
             /\ BackoffDelay(n + 1) = Min(2 * BackoffDelay(n), 10))

\* the second retry of the task was delivered, after its backoff
C27_Witness ==
    /\ timed_task.state = "in-flight"
    /\ timed_task.attempts = 2
    /\ timed_task.delivered_at >= timed_task.next_eligible_time
    /\ timed_task.next_eligible_time >= BackoffDelay(1) + BackoffDelay(2)

TimerFired(outcome) ==
    /\ outcome.rejection # << >>
    /\ outcome.rejection[1].name = "AbortError"

Returns401 ==
    /\ last_request # << >>
    /\ last_request[1].status = << >>
    /\ last_request[1].authorization # << >>
    /\ last_request'[1].status = << 401 >>

\* C32 as stated: when an API request returns 401, 'token-invalid' is
\* triggered and UserSync, in the same step, resets its synced flag and
\* starts a new user sync.
C32_TokenInvalidResync ==
    [][ Returns401 => /\ ~user_sync'.synced
                      /\ user_sync'.pc = "session" ]_vars

\* the component has nothing in progress and nothing to do
Quiescent == user_sync.pc = "idle" /\ ~user_sync.effect_due

\* C33 as stated: after the last page load the component fetches the session
\* and calls syncUser only finitely often, whatever the outcomes: from some
\* point on it is quiescent.
C33_EventuallyQuiescent == <>[]Quiescent

\* C37 as stated: the token in storage is the one of the user who is signed
\* in, and an authenticated request carries the token of the user who was
\* signed in when it was sent.
C37_TokenOfSessionUser ==
    /\ (session /\ local_storage # << >>)
          => local_storage = << TokenOf(session_user[1]) >>
    /\ (last_request # << >> /\ last_request[1].authorization # << >>)
          => last_request[1].authorization = << TokenOf(last_request[1].user) >>

(***************************************************************************)
(* Properties of the pages' effects.                                       *)
(***************************************************************************)
\* the step sends the first authenticated request of the loaded page
FirstProjectsRequest ==
    /\ projects_fetch'.mounted
    /\ projects_fetch'.started > 0
    /\ ~projects_fetch.mounted \/ projects_fetch.started = 0

FirstDetailRequest ==
    /\ detail_fetch'.page # "none"
    /\ detail_fetch'.started > 0
    /\ detail_fetch.page = "none" \/ detail_fetch.started = 0

\* C34 as stated: the first authenticated request of the projects page, of
\* the project-detail page and of the error-detail page is sent only in a
\* state in which a token is in storage.
C34_FirstRequestHasToken ==
    [][ (FirstProjectsRequest \/ FirstDetailRequest) => local_storage' # << >> ]_vars

\* C35 as stated: when getProjects fails with status 401 or 403, whatever
\* the detail text of the response, the error state of the projects page
\* stays null.
C35_AuthFailureNotShown ==
    [][ \A id \in 1..MaxProjectFetches, status \in {401, 403},
           detail \in DetailTexts, http2 \in BOOLEAN :
           ( /\ id \in projects_fetch.in_flight
             /\ projects_fetch.error = << >>
             /\ ProjectsRequestFails(id, status, detail,
                                     IF http2 THEN << >> ELSE StatusText(status)) )
              => projects_fetch'.error = << >>
      ]_vars

\* C36: the error-detail page of part_003 sends its request at most once per
\* mount, also when its effect runs twice, and only when its wait has ended
\* (by the 'user-synced' event, by the 2-second timer, or by a token it
\* found); and on every such page that stays loaded, loading becomes false.
C36_OneRequestLoadingEnds ==
    /\ [](detail_fetch.page = "part_003"
            => /\ detail_fetch.started <= 1
               /\ detail_fetch.waiting + detail_fetch.started <= 1
               /\ Len(detail_fetch.resolved) = detail_fetch.started
               /\ \A i \in DOMAIN detail_fetch.resolved :
                     detail_fetch.resolved[i] \in {"token", "event", "timer"}
               /\ ~detail_fetch.loading
                     => \/ ~detail_fetch.valid_id
                        \/ detail_fetch.started = 1 /\ detail_fetch.in_flight = 0)
    /\ (detail_fetch.page = "part_003" /\ detail_fetch.loading)
          ~> (detail_fetch.page # "part_003" \/ ~detail_fetch.loading)

\* the effect has run twice, the wait was ended by the timer, the one request
\* has settled and loading is false
C36_Witness ==
    /\ detail_fetch.page = "part_003"
    /\ detail_fetch.valid_id
    /\ detail_fetch.effects = MaxEffectRuns
    /\ detail_fetch.resolved = << "timer" >>
    /\ detail_fetch.started = 1
    /\ detail_fetch.in_flight = 0
    /\ ~detail_fetch.loading

\* C38 as stated: when a token is in storage, the effect of the error-detail
\* page sees it: fetchData does not start to wait for the event or the
\* timer.
C38_StoredTokenSeen ==
    [][ ( /\ detail_fetch.page \in {"ErrorDetailPage", "part_003"}
          /\ getApiToken(TRUE) # << >> )
           => detail_fetch'.waiting <= detail_fetch.waiting ]_vars

\* the step is the dispatch of 'user-synced' on the projects page
IsProjectsUserSynced ==
    projects_fetch.mounted /\ ~projects_fetch.user_synced /\ projects_fetch'.user_synced

\* C39 as stated: a 'user-synced' event starts exactly one getProjects
\* request; at most one request is in flight; when all requests have
\* completed the page shows the outcome of the request started last.
C39_OneRequestLatestShown ==
    /\ [][ IsProjectsUserSynced
              => projects_fetch'.started = projects_fetch.started + 1 ]_vars
    /\ [](Cardinality(projects_fetch.in_flight) <= 1)
    /\ []((projects_fetch.started > 0 /\ projects_fetch.in_flight = {})
             => projects_fetch.shown = << projects_fetch.started >>)

====
